---------------------------- MODULE Spec2Model ----------------------------
(***************************************************************************)
(* Model of the finbot natural-language pipeline: the analytics (safe     *)
(* query) service, the transaction extraction service, the natural-       *)
(* language router and the handlers that persist AI-extracted             *)
(* transactions.  Text is modelled by TLA+ strings; Python string         *)
(* methods (lower, upper, strip, find, slicing, "in") are operators that  *)
(* compute what the Python methods compute.  Emoji outside the Basic        *)
(* Multilingual Plane are left out of the message literals, the check mark *)
(* is written OK and the bullet *, and the character ~ stands for the      *)
(* backquote of a markdown fence (a TLA+ string cannot hold these).        *)
(***************************************************************************)
EXTENDS Integers, Sequences, FiniteSets, TLC

(***************************************************************************)
(* Python string primitives                                                *)
(***************************************************************************)
SetMin(S) == CHOOSE x \in S : \A y \in S : x <= y
SetMax(S) == CHOOSE x \in S : \A y \in S : x >= y

Chr(s, i) == SubSeq(s, i, i)

LOWERS == "abcdefghijklmnopqrstuvwxyzáéíóúñ"
UPPERS == "ABCDEFGHIJKLMNOPQRSTUVWXYZÁÉÍÓÚÑ"

LetterIndex(alphabet, c) ==
    LET hits == {i \in 1..Len(alphabet) : Chr(alphabet, i) = c}
    IN  IF hits = {} THEN 0 ELSE SetMin(hits)

LowerChar(c) ==
    LET i == LetterIndex(UPPERS, c) IN IF i = 0 THEN c ELSE Chr(LOWERS, i)

UpperChar(c) ==
    LET i == LetterIndex(LOWERS, c) IN IF i = 0 THEN c ELSE Chr(UPPERS, i)

RECURSIVE Lower(_)
\* str.lower()
Lower(s) == IF Len(s) = 0 THEN "" ELSE LowerChar(Chr(s, 1)) \o Lower(SubSeq(s, 2, Len(s)))

RECURSIVE Upper(_)
\* str.upper()
Upper(s) == IF Len(s) = 0 THEN "" ELSE UpperChar(Chr(s, 1)) \o Upper(SubSeq(s, 2, Len(s)))

RECURSIVE FirstKept(_, _, _)
\* the first index at or after i of a character of s outside drop, Len(s) + 1 if none
FirstKept(s, drop, i) ==
    IF i > Len(s) THEN i
    ELSE IF Chr(s, i) \in drop THEN FirstKept(s, drop, i + 1) ELSE i

RECURSIVE LastKept(_, _, _)
\* the last index at or before i of a character of s outside drop, 0 if none
LastKept(s, drop, i) ==
    IF i < 1 THEN 0
    ELSE IF Chr(s, i) \in drop THEN LastKept(s, drop, i - 1) ELSE i

\* str.strip()
Strip(s) ==
    LET last == LastKept(s, {" ", "\n", "\t"}, Len(s))
    IN  IF last = 0 THEN "" ELSE SubSeq(s, FirstKept(s, {" ", "\n", "\t"}, 1), last)

\* str.rstrip(ch) for a single character ch
RStripChar(s, ch) == SubSeq(s, 1, LastKept(s, {ch}, Len(s)))

\* str.find(sub, start): 0-based index of the first occurrence at or after start, -1 if none
Find(s, sub, start) ==
    LET hits == {i \in start..(Len(s) - Len(sub)) : SubSeq(s, i + 1, i + Len(sub)) = sub}
    IN  IF hits = {} THEN -1 ELSE SetMin(hits)

\* the Python expression  sub in s
Contains(s, sub) == \E i \in 0..(Len(s) - Len(sub)) : SubSeq(s, i + 1, i + Len(sub)) = sub

\* str.startswith(prefix)
StartsWith(s, prefix) == Len(prefix) <= Len(s) /\ SubSeq(s, 1, Len(prefix)) = prefix

\* the Python slice s[a:b] for a >= 0 (b may be negative: counted from the end)
PySlice(s, a, b) ==
    LET stop  == IF b < 0 THEN (IF Len(s) + b < 0 THEN 0 ELSE Len(s) + b)
                 ELSE (IF b > Len(s) THEN Len(s) ELSE b)
        start == IF a > Len(s) THEN Len(s) ELSE a
    IN  IF start >= stop THEN "" ELSE SubSeq(s, start + 1, stop)

RECURSIVE ReplaceChar(_, _, _)
\* str.replace(a, b) for single characters a, b
ReplaceChar(s, a, b) ==
    IF Len(s) = 0 THEN ""
    ELSE (IF Chr(s, 1) = a THEN b ELSE Chr(s, 1)) \o ReplaceChar(SubSeq(s, 2, Len(s)), a, b)

DIGITS == "0123456789"

RECURSIVE NatToStr(_)
NatToStr(n) == IF n < 10 THEN Chr(DIGITS, n + 1) ELSE NatToStr(n \div 10) \o Chr(DIGITS, (n % 10) + 1)

\* str(n) for an int
IntToStr(n) == IF n < 0 THEN "-" \o NatToStr(-n) ELSE NatToStr(n)

(***************************************************************************)
(* Environment: what the model provider and the database can answer.       *)
(* A response is [ok, text]: ok = FALSE is a raised exception whose        *)
(* message is text.                                                        *)
(***************************************************************************)
PROVIDER_ERROR == "503 provider unavailable"
DATABASE_ERROR == "psycopg2.OperationalError: connection refused"

Resp(ok, text) == [ok |-> ok, text |-> text]
NoResp == Resp(FALSE, "")

UserIds == {7, 42}

\* raw texts the SQL-generation model call can return
GenResponses ==
    { Resp(FALSE, PROVIDER_ERROR),
      Resp(TRUE, "SELECT SUM(amount) FROM transactions WHERE user_id = 7;"),
      Resp(TRUE, "~~~sql\nSELECT COUNT(*) FROM transactions WHERE user_id = 42\n~~~"),
      Resp(TRUE, "  select amount from transactions"),
      Resp(TRUE, "SELECT 'ACTION_NOT_ALLOWED'"),
      Resp(TRUE, "select 'action_not_allowed' as r;"),
      Resp(TRUE, "DELETE FROM transactions WHERE user_id = 7"),
      Resp(TRUE, "DELETE FROM transactions -- ACTION_NOT_ALLOWED"),
      Resp(TRUE, "SELECT 1; DROP TABLE users"),
      Resp(TRUE, "SELECT 1 ;SELECT 2"),
      Resp(TRUE, "SELECT pg_sleep(7)"),
      Resp(TRUE, "WITH t AS (SELECT 1) SELECT * FROM t"),
      Resp(TRUE, "~~~\nSELECT name FROM categories WHERE user_id = 7") }

\* a result cell: column name and a value that is an int, a str or None
Cell(col, t, s, n) == [col |-> col, t |-> t, s |-> s, n |-> n]
IntCell(col, n) == Cell(col, "int", "", n)
StrCell(col, s) == Cell(col, "str", s, 0)
NoneCell(col)   == Cell(col, "none", "", 0)

\* what session.execute can do: raise, or return rows (a list of dicts)
DbOut(err, text, rows) == [err |-> err, text |-> text, rows |-> rows]
NoDb == DbOut("", "", <<>>)

DbResponses ==
    { DbOut("SQLAlchemyError", DATABASE_ERROR, <<>>),
      DbOut("Exception", DATABASE_ERROR, <<>>),
      DbOut("", "", <<>>),
      DbOut("", "", << <<IntCell("total", 1500000)>> >>),
      DbOut("", "", << <<StrCell("r", "Action_Not_Allowed")>> >>),
      DbOut("", "", << <<StrCell("name", "Comida"), IntCell("n", 3)>>,
                       <<StrCell("name", "ACTION_NOT_ALLOWED"), IntCell("n", 1)>> >>),
      DbOut("", "", << <<NoneCell("total")>> >>),
      DbOut("", "", << <<StrCell("name", "Comida"), IntCell("n", 3)>>,
                       <<StrCell("name", "Casa"), IntCell("n", 1)>> >>) }

\* texts the interpretation model call can return
InterpResponses ==
    { Resp(FALSE, PROVIDER_ERROR),
      Resp(TRUE, " Gastaste $1.500.000,00 este mes ") }

(***************************************************************************)
(* AnalyticsService (bot/services/analytics_service.py)                    *)
(* Every method that calls the provider or the database is a set of       *)
(* outcomes, one per answer of the environment.                           *)
(***************************************************************************)
REFUSAL_PREFILTER == "⛔ Lo siento, soy un analista de datos y solo puedo **leer y consultar** tu información. Para borrar datos, por favor usa los comandos manuales o el menú."
REFUSAL_GENERATED == "⛔ Lo siento, soy un analista de datos y solo puedo **leer y consultar** tu información. Para borrar datos, por favor usa los comandos manuales o el menú."
REFUSAL_RESULTS == "⛔ Lo siento, soy un analista de datos y solo puedo **leer y consultar** tu información. Para borrar datos, por favor usa los comandos manuales o el menú."
REFUSAL_INTERPRET == "⛔ Lo siento, soy un analista de datos y solo puedo **leer y consultar** tu información. Para borrar datos, por favor usa los comandos manuales o el menú."

destructive_keywords ==
    << "borrar", "eliminar", "delete", "drop",
       "cambiar", "actualizar", "update", "modificar",
       "limpiar", "vaciar", "truncate", "clear",
       "remover", "quitar", "remove" >>

\* the pre-filter without question.lower(): the keywords are matched as typed
_has_destructive_intent_cased(question) ==
    LET question_lower == question
    IN  \E i \in DOMAIN destructive_keywords : Contains(question_lower, destructive_keywords[i])

_has_destructive_intent(question) ==
    LET question_lower == Lower(question)
    IN  \E i \in DOMAIN destructive_keywords : Contains(question_lower, destructive_keywords[i])

\* events of one request, in program order
EV_GENERATE  == "generate_content(sql)"
EV_WARN      == "logger.warning(user_id)"
EV_EXECUTE   == "session.execute"
EV_INTERPRET == "generate_content(interpret)"

\* markdown-fence cleanup and trailing-semicolon removal of _generate_sql
clean_generated_sql(text) ==
    LET sql_query == Strip(text)
        fenced ==
            IF Contains(Lower(sql_query), "~~~sql")
            THEN LET sql_start == Find(Lower(sql_query), "~~~sql", 0) + 6
                     sql_end   == Find(Lower(sql_query), "~~~", sql_start)
                 IN  Strip(PySlice(sql_query, sql_start, sql_end))
            ELSE IF Contains(sql_query, "~~~")
            THEN LET sql_start == Find(sql_query, "~~~", 0) + 3
                     sql_end   == Find(sql_query, "~~~", sql_start)
                 IN  Strip(PySlice(sql_query, sql_start, sql_end))
            ELSE sql_query
    IN  Strip(RStripChar(fenced, ";"))

\* outcome of a service method: kind is "return" or the exception class raised
\* gen, db and interp are the answers of the environment the method consumed; sql is the
\* generated SQL and submitted says whether it was passed to _execute_safe_query
Out(kind, value, trace, gen, sql, db, interp) ==
    [kind |-> kind, value |-> value, trace |-> trace,
     gen |-> gen, sql |-> sql, submitted |-> FALSE, db |-> db, interp |-> interp]

_generate_sql(question, user_id) ==
    { IF g.ok
      THEN Out("return", clean_generated_sql(g.text), <<EV_GENERATE>>, g, "", NoDb, NoResp)
      ELSE Out("RuntimeError", "Error generando consulta SQL: " \o g.text,
               <<EV_GENERATE>>, g, "", NoDb, NoResp)
      : g \in GenResponses }

dangerous_keywords ==
    << "DROP", "DELETE", "INSERT", "UPDATE", "TRUNCATE",
       "ALTER", "CREATE", "GRANT", "REVOKE", "EXEC", "EXECUTE",
       "MERGE", "COPY", "CALL", "COMMIT", "ROLLBACK" >>

dangerous_functions == << "PG_", "EXEC", "EXECUTE" >>

\* the validation without the check for several statements
_validate_sql_safety_no_semicolon(sql_query) ==
    LET sql_upper == Strip(Upper(sql_query))
        hits == {i \in DOMAIN dangerous_keywords : Contains(sql_upper, dangerous_keywords[i])}
    IN  IF ~StartsWith(sql_upper, "SELECT")
        THEN <<FALSE, "La consulta debe ser solo SELECT">>
        ELSE IF hits # {}
        THEN <<FALSE, "No se permiten operaciones " \o dangerous_keywords[SetMin(hits)]>>
        ELSE IF FALSE
        THEN <<FALSE, "No se permiten múltiples consultas">>
        ELSE IF \E i \in DOMAIN dangerous_functions : Contains(sql_upper, dangerous_functions[i])
        THEN <<FALSE, "No se permiten llamadas a funciones del sistema">>
        ELSE <<TRUE, "">>

\* returns (is_safe, error_message)
_validate_sql_safety(sql_query) ==
    LET sql_upper == Strip(Upper(sql_query))
        hits == {i \in DOMAIN dangerous_keywords : Contains(sql_upper, dangerous_keywords[i])}
    IN  IF ~StartsWith(sql_upper, "SELECT")
        THEN <<FALSE, "La consulta debe ser solo SELECT">>
        ELSE IF hits # {}
        THEN <<FALSE, "No se permiten operaciones " \o dangerous_keywords[SetMin(hits)]>>
        ELSE IF Contains(sql_query, ";")
        THEN <<FALSE, "No se permiten múltiples consultas">>
        ELSE IF \E i \in DOMAIN dangerous_functions : Contains(sql_upper, dangerous_functions[i])
        THEN <<FALSE, "No se permiten llamadas a funciones del sistema">>
        ELSE <<TRUE, "">>

\* the execution that refuses a query the scoping check warns about
_execute_safe_query_blocking(sql_query, user_id) ==
    LET checked == _validate_sql_safety(sql_query)
        warned == ~Contains(sql_query, IntToStr(user_id)) /\ ~Contains(Lower(sql_query), "user_id")
    IN  IF ~checked[1]
        THEN { Out("ValueError", "Consulta SQL no segura: " \o checked[2], <<>>, NoResp, sql_query, NoDb, NoResp) }
        ELSE IF warned
        THEN { Out("ValueError", "Consulta SQL no segura: user_id", <<EV_WARN>>, NoResp, sql_query, NoDb, NoResp) }
        ELSE { IF d.err = "SQLAlchemyError"
               THEN Out("RuntimeError", "Error ejecutando consulta: " \o d.text,
                        <<EV_EXECUTE>>, NoResp, sql_query, d, NoResp)
               ELSE IF d.err # ""
               THEN Out("RuntimeError", "Error inesperado: " \o d.text,
                        <<EV_EXECUTE>>, NoResp, sql_query, d, NoResp)
               ELSE Out("return", "", <<EV_EXECUTE>>, NoResp, sql_query, d, NoResp)
               : d \in DbResponses }

\* the execution without the call of _validate_sql_safety
_execute_safe_query_unvalidated(sql_query, user_id) ==
    LET checked == <<TRUE, "">>
        warn == IF ~Contains(sql_query, IntToStr(user_id)) /\ ~Contains(Lower(sql_query), "user_id")
                THEN <<EV_WARN>> ELSE <<>>
    IN  IF ~checked[1]
        THEN { Out("ValueError", "Consulta SQL no segura: " \o checked[2], <<>>, NoResp, sql_query, NoDb, NoResp) }
        ELSE { IF d.err = "SQLAlchemyError"
               THEN Out("RuntimeError", "Error ejecutando consulta: " \o d.text,
                        warn \o <<EV_EXECUTE>>, NoResp, sql_query, d, NoResp)
               ELSE IF d.err # ""
               THEN Out("RuntimeError", "Error inesperado: " \o d.text,
                        warn \o <<EV_EXECUTE>>, NoResp, sql_query, d, NoResp)
               ELSE Out("return", "", warn \o <<EV_EXECUTE>>, NoResp, sql_query, d, NoResp)
               : d \in DbResponses }

_execute_safe_query(sql_query, user_id) ==
    LET checked == _validate_sql_safety(sql_query)
        warn == IF ~Contains(sql_query, IntToStr(user_id)) /\ ~Contains(Lower(sql_query), "user_id")
                THEN <<EV_WARN>> ELSE <<>>
    IN  IF ~checked[1]
        THEN { Out("ValueError", "Consulta SQL no segura: " \o checked[2], <<>>, NoResp, sql_query, NoDb, NoResp) }
        ELSE { IF d.err = "SQLAlchemyError"
               THEN Out("RuntimeError", "Error ejecutando consulta: " \o d.text,
                        warn \o <<EV_EXECUTE>>, NoResp, sql_query, d, NoResp)
               ELSE IF d.err # ""
               THEN Out("RuntimeError", "Error inesperado: " \o d.text,
                        warn \o <<EV_EXECUTE>>, NoResp, sql_query, d, NoResp)
               ELSE Out("return", "", warn \o <<EV_EXECUTE>>, NoResp, sql_query, d, NoResp)
               : d \in DbResponses }

\* str(value) of a result cell
PyStr(cell) ==
    CASE cell.t = "int" -> IntToStr(cell.n)
      [] cell.t = "str" -> cell.s
      [] OTHER -> "None"

RECURSIVE GroupThousands(_)
\* the integer part of format(n, ",")
GroupThousands(n) ==
    IF n < 1000 THEN NatToStr(n)
    ELSE GroupThousands(n \div 1000) \o ","
         \o Chr(DIGITS, ((n \div 100) % 10) + 1)
         \o Chr(DIGITS, ((n \div 10) % 10) + 1)
         \o Chr(DIGITS, (n % 10) + 1)

\* f"El resultado es: ${value:,.2f}" with "," and "." swapped
format_single_number(n) ==
    LET py == "El resultado es: $" \o (IF n < 0 THEN "-" ELSE "")
              \o GroupThousands(IF n < 0 THEN -n ELSE n) \o ".00"
    IN  ReplaceChar(ReplaceChar(ReplaceChar(py, ",", "X"), ".", ","), "X", ".")

\* the fallback that reports the row count whatever the rows hold
interpret_fallback_count_only(query_results) ==
    "Encontré " \o IntToStr(Len(query_results)) \o " resultado(s). Usa /dashboard para ver más detalles."

\* the except branch of _interpret_results
interpret_fallback(query_results) ==
    IF Len(query_results) = 0
    THEN "No encontré información para tu pregunta."
    ELSE LET first_result == query_results[1]
         IN  IF Len(first_result) = 1
             THEN IF first_result[1].t = "int"
                  THEN format_single_number(first_result[1].n)
                  ELSE "El resultado es: " \o PyStr(first_result[1])
             ELSE "Encontré " \o IntToStr(Len(query_results))
                  \o " resultado(s). Usa /dashboard para ver más detalles."

\* the interpretation without the early check of the marker in the rows
_interpret_results_no_marker(question, query_results) ==
    IF FALSE
    THEN { Out("return", REFUSAL_INTERPRET, <<>>, NoResp, "", NoDb, NoResp) }
    ELSE { IF m.ok
           THEN Out("return", Strip(m.text), <<EV_INTERPRET>>, NoResp, "", NoDb, m)
           ELSE Out("return", interpret_fallback(query_results), <<EV_INTERPRET>>, NoResp, "", NoDb, m)
           : m \in InterpResponses }

_interpret_results(question, query_results) ==
    IF \E r \in DOMAIN query_results : \E c \in DOMAIN query_results[r] :
          Upper(PyStr(query_results[r][c])) = "ACTION_NOT_ALLOWED"
    THEN { Out("return", REFUSAL_INTERPRET, <<>>, NoResp, "", NoDb, NoResp) }
    ELSE { IF m.ok
           THEN Out("return", Strip(m.text), <<EV_INTERPRET>>, NoResp, "", NoDb, m)
           ELSE Out("return", interpret_fallback(query_results), <<EV_INTERPRET>>, NoResp, "", NoDb, m)
           : m \in InterpResponses }

\* the except clauses of answer_question: ValueError is re-raised, anything else is wrapped
aq_except(o) ==
    IF o.kind \in {"return", "ValueError"} THEN o
    ELSE [o EXCEPT !.kind = "RuntimeError", !.value = "Error procesando tu pregunta: " \o o.value]

aq_after_execute(question, g, e) ==
    IF e.kind # "return"
    THEN { aq_except([e EXCEPT !.trace = g.trace \o e.trace, !.gen = g.gen, !.submitted = TRUE]) }
    ELSE LET query_results == e.db.rows
             tr == g.trace \o e.trace
         IN  IF Len(query_results) > 0
                /\ \E c \in DOMAIN query_results[1] :
                      Upper(PyStr(query_results[1][c])) = "ACTION_NOT_ALLOWED"
             THEN { [Out("return", REFUSAL_RESULTS, tr, g.gen, e.sql, e.db, NoResp)
                       EXCEPT !.submitted = TRUE] }
             ELSE { [Out(r.kind, r.value, tr \o r.trace, g.gen, e.sql, e.db, r.interp)
                       EXCEPT !.submitted = TRUE]
                    : r \in _interpret_results(question, query_results) }

\* answer_question without the check of the marker in the generated SQL
aq_after_generate_no_marker(question, user_id, g) ==
    IF g.kind # "return"
    THEN { aq_except(g) }
    ELSE LET sql_query == g.value
             sql_upper == Upper(Strip(sql_query))
         IN  IF FALSE
             THEN { Out("return", REFUSAL_GENERATED, g.trace, g.gen, sql_query, NoDb, NoResp) }
             ELSE UNION { aq_after_execute(question, g, e)
                          : e \in _execute_safe_query(sql_query, user_id) }

aq_after_generate(question, user_id, g) ==
    IF g.kind # "return"
    THEN { aq_except(g) }
    ELSE LET sql_query == g.value
             sql_upper == Upper(Strip(sql_query))
         IN  IF Contains(sql_upper, "ACTION_NOT_ALLOWED")
                \/ Contains(sql_upper, "SELECT 'ACTION_NOT_ALLOWED'")
             THEN { Out("return", REFUSAL_GENERATED, g.trace, g.gen, sql_query, NoDb, NoResp) }
             ELSE UNION { aq_after_execute(question, g, e)
                          : e \in _execute_safe_query(sql_query, user_id) }

answer_question(question, user_id) ==
    IF question = "" \/ Strip(question) = ""
    THEN { Out("ValueError", "Question cannot be empty", <<>>, NoResp, "", NoDb, NoResp) }
    ELSE IF _has_destructive_intent(question)
    THEN { Out("return", REFUSAL_PREFILTER, <<>>, NoResp, "", NoDb, NoResp) }
    ELSE UNION { aq_after_generate(question, user_id, g)
                 : g \in _generate_sql(question, user_id) }


(***************************************************************************)
(* Calendar dates and the clock.  A date is its day number (days since     *)
(* 1970-01-01); an instant is a number of hours since 1970-01-01T00:00Z.   *)
(***************************************************************************)
IsDigit(c) == \E i \in 1..10 : Chr(DIGITS, i) = c
IsDigits(s) == Len(s) > 0 /\ \A i \in 1..Len(s) : IsDigit(Chr(s, i))

DigitValue(c) == SetMin({i \in 1..10 : Chr(DIGITS, i) = c}) - 1

RECURSIVE StrToNat(_)
\* int(s) for a string of digits
StrToNat(s) ==
    IF Len(s) = 1 THEN DigitValue(s)
    ELSE StrToNat(SubSeq(s, 1, Len(s) - 1)) * 10 + DigitValue(Chr(s, Len(s)))

IsLeap(y) == (y % 4 = 0 /\ y % 100 # 0) \/ y % 400 = 0

DaysInMonth(y, m) ==
    IF m = 2 THEN (IF IsLeap(y) THEN 29 ELSE 28)
    ELSE IF m \in {4, 6, 9, 11} THEN 30 ELSE 31

\* date(y, m, d) as a day number
DaysFromCivil(y, m, d) ==
    LET yy  == IF m <= 2 THEN y - 1 ELSE y
        era == yy \div 400
        yoe == yy - era * 400
        mp  == IF m > 2 THEN m - 3 ELSE m + 9
        doy == (153 * mp + 2) \div 5 + d - 1
        doe == yoe * 365 + yoe \div 4 - yoe \div 100 + doy
    IN  era * 146097 + doe - 719468

\* the (year, month, day) of a day number
CivilFromDays(z) ==
    LET zz  == z + 719468
        era == zz \div 146097
        doe == zz - era * 146097
        yoe == (doe - doe \div 1460 + doe \div 36524 - doe \div 146096) \div 365
        doy == doe - (365 * yoe + yoe \div 4 - yoe \div 100)
        mp  == (5 * doy + 2) \div 153
        d   == doy - (153 * mp + 2) \div 5 + 1
        m   == IF mp < 10 THEN mp + 3 ELSE mp - 9
        y   == yoe + era * 400 + (IF m <= 2 THEN 1 ELSE 0)
    IN  <<y, m, d>>

Pad(n, width) ==
    LET t == NatToStr(n)
    IN  IF Len(t) >= width THEN t
        ELSE SubSeq("0000", 1, width - Len(t)) \o t

\* date.strftime("%Y-%m-%d")
FormatIsoDate(z) ==
    LET c == CivilFromDays(z) IN Pad(c[1], 4) \o "-" \o Pad(c[2], 2) \o "-" \o Pad(c[3], 2)

\* date.fromisoformat(s): the day number, or -1 where Python raises ValueError
ParseIsoDate(s) ==
    IF Len(s) = 10 /\ Chr(s, 5) = "-" /\ Chr(s, 8) = "-"
       /\ IsDigits(SubSeq(s, 1, 4)) /\ IsDigits(SubSeq(s, 6, 7)) /\ IsDigits(SubSeq(s, 9, 10))
    THEN LET y == StrToNat(SubSeq(s, 1, 4))
             m == StrToNat(SubSeq(s, 6, 7))
             d == StrToNat(SubSeq(s, 9, 10))
         IN  IF y >= 1 /\ m \in 1..12 /\ d >= 1 /\ d <= DaysInMonth(y, m)
             THEN DaysFromCivil(y, m, d) ELSE -1
    ELSE -1

BOGOTA_UTC_OFFSET == -5

\* convert_utc_to_local(now_utc, "America/Bogota").date() as a day number
LocalDate(now_utc) == (now_utc + BOGOTA_UTC_OFFSET) \div 24

\* the date of an instant on a clock that runs in UTC
UtcDate(now_utc) == now_utc \div 24

\* date.today() of the server process, whose clock runs in UTC
ServerToday(now_utc) == UtcDate(now_utc)


(***************************************************************************)
(* Categories (models.py, bot/services/categories.py)                      *)
(***************************************************************************)
EXPENSE == "expense"
INCOME  == "income"

Def(name, type, is_default) == [name |-> name, type |-> type, is_default |-> is_default]

DEFAULT_CATEGORY_DEFINITIONS ==
    << Def("General", EXPENSE, TRUE),
       Def("Comida", EXPENSE, FALSE),
       Def("Transporte", EXPENSE, FALSE),
       Def("Casa", EXPENSE, FALSE),
       Def("Ocio", EXPENSE, FALSE),
       Def("Suscripciones", EXPENSE, FALSE),
       Def("Salud", EXPENSE, FALSE),
       Def("Educación", EXPENSE, FALSE),
       Def("Regalos", EXPENSE, FALSE),
       Def("General Ingreso", INCOME, TRUE),
       Def("Salario", INCOME, FALSE),
       Def("Inversiones", INCOME, FALSE) >>

\* the Category rows of a table, by primary key
MaxId(rows) == IF rows = {} THEN 0 ELSE SetMax({r.id : r \in rows})

\* the table after create_default_categories(session, user_id, selected_names=...);
\* an empty selected_names is the default None.  New rows take the next primary keys
\* in the order of DEFAULT_CATEGORY_DEFINITIONS.
create_default_categories(table, user_id, selected_names) ==
    LET existing_names == {c.name : c \in {r \in table : r.user_id = user_id}}
        desired_names  == {Strip(n) : n \in selected_names}
        to_add == {i \in DOMAIN DEFAULT_CATEGORY_DEFINITIONS :
                      /\ DEFAULT_CATEGORY_DEFINITIONS[i].name \notin existing_names
                      /\ (selected_names = {} \/ DEFAULT_CATEGORY_DEFINITIONS[i].name \in desired_names)}
        rank(i) == Cardinality({j \in to_add : j <= i})
        last_id == MaxId(table)
    IN  table \cup
        { [id |-> last_id + rank(i), user_id |-> user_id,
           name |-> DEFAULT_CATEGORY_DEFINITIONS[i].name,
           type |-> DEFAULT_CATEGORY_DEFINITIONS[i].type,
           is_default |-> DEFAULT_CATEGORY_DEFINITIONS[i].is_default] : i \in to_add }

\* the rows fetch_user_categories returns (their order plays no role in a lookup by id)
fetch_user_categories(table, user_id) == {r \in table : r.user_id = user_id}

(***************************************************************************)
(* AIService (bot/services/ai_service.py)                                  *)
(* The provider's answer to an extraction call, after fence removal and   *)
(* json.loads: a raised API error, text that is not JSON, or a dict.       *)
(***************************************************************************)
\* a JSON amount: a number given in thousandths, or something Decimal() rejects
Num(milli) == [num |-> TRUE, milli |-> milli]
NotNum == [num |-> FALSE, milli |-> 0]

\* a JSON category_id: an integer, or something int() rejects
IdInt(n) == [int |-> TRUE, n |-> n]
IdBad == [int |-> FALSE, n |-> 0]

required_fields == << "amount", "category_id", "type", "description", "date" >>
AllFields == {required_fields[i] : i \in DOMAIN required_fields}

Parsed(has, amount, category_id, type, description, date) ==
    [has |-> has, amount |-> amount, category_id |-> category_id, type |-> type,
     description |-> description, date |-> date]
NoParsed == Parsed({}, NotNum, IdBad, "", "", "")

Extract(ok, json, parsed) == [ok |-> ok, json |-> json, parsed |-> parsed]
NoExtract == Extract(FALSE, FALSE, NoParsed)

ExtractResponses ==
    { Extract(FALSE, FALSE, NoParsed),
      Extract(TRUE, FALSE, NoParsed),
      Extract(TRUE, TRUE, Parsed(AllFields \ {"date"}, Num(20000000), IdInt(2), "expense", "almuerzo", "")),
      Extract(TRUE, TRUE, Parsed(AllFields, NotNum, IdInt(2), "expense", "almuerzo", "2025-06-14")),
      Extract(TRUE, TRUE, Parsed(AllFields, Num(0), IdInt(2), "expense", "almuerzo", "2025-06-14")),
      Extract(TRUE, TRUE, Parsed(AllFields, Num(20000000), IdInt(99), "expense", "almuerzo", "2025-06-14")),
      Extract(TRUE, TRUE, Parsed(AllFields, Num(20000000), IdBad, "expense", "almuerzo", "2025-06-14")),
      Extract(TRUE, TRUE, Parsed(AllFields, Num(20000000), IdInt(2), "gasto", "almuerzo", "2025-06-14")),
      Extract(TRUE, TRUE, Parsed(AllFields, Num(20000000), IdInt(11), "expense", "almuerzo", "2025-06-14")),
      Extract(TRUE, TRUE, Parsed(AllFields, Num(500000000), IdInt(2), "Income", "nómina", "2025-06-14")),
      Extract(TRUE, TRUE, Parsed(AllFields, Num(20000000), IdInt(2), "expense", "almuerzo", "ayer")),
      Extract(TRUE, TRUE, Parsed(AllFields, Num(20000000), IdInt(2), "expense", "almuerzo", "2025-02-30")),
      Extract(TRUE, TRUE, Parsed(AllFields, Num(20000000), IdInt(2), "expense", "almuerzo", "2025-06-16")),
      Extract(TRUE, TRUE, Parsed(AllFields, Num(20000000), IdInt(2), "expense", "almuerzo", "2010-01-01")),
      Extract(TRUE, TRUE, Parsed(AllFields, Num(0), IdInt(11), "expense", "", "mañana")),
      Extract(TRUE, TRUE, Parsed(AllFields, Num(20000000), IdInt(2), "expense", "almuerzo", "2025-06-14")),
      Extract(TRUE, TRUE, Parsed(AllFields, Num(500000005), IdInt(11), "INCOME", "", "2025-06-15")),
      Extract(TRUE, TRUE, Parsed(AllFields, Num(3500500), IdInt(14), "expense", "taxi", " 2025-06-15 ")) }

\* Decimal.quantize(Decimal("0.01")) of a positive amount given in thousandths, in cents
\* (the default rounding of the decimal context is ROUND_HALF_EVEN)
Quantize(milli) ==
    LET q == milli \div 10
        r == milli % 10
    IN  IF r > 5 \/ (r = 5 /\ q % 2 = 1) THEN q + 1 ELSE q

Result(amount, category_id, description, type, date) ==
    [amount |-> amount, category_id |-> category_id, description |-> description,
     type |-> type, date |-> date]
NoResult == Result(0, 0, "", "", "")

\* outcome of the extraction service: kind is "return" or the exception class raised
PxOut(kind, value, result, resp) == [kind |-> kind, value |-> value, result |-> result, resp |-> resp]

MAX_PAST_DAYS == 3650

\* the validation without the check that the date is not in the future
_validate_and_normalize_response_no_future_check(parsed, categories, now_utc) ==
    LET missing == {i \in DOMAIN required_fields : required_fields[i] \notin parsed.has}
        category_id == parsed.category_id.n
        found == {c \in categories : c.id = category_id}
        category == CHOOSE c \in found : TRUE
        transaction_type == Lower(parsed.type)
        date_str == Strip(parsed.date)
        parsed_date == ParseIsoDate(date_str)
        today == ServerToday(now_utc)
        shaped == Len(date_str) = 10 /\ Chr(date_str, 5) = "-" /\ Chr(date_str, 8) = "-"
                  /\ IsDigits(SubSeq(date_str, 1, 4)) /\ IsDigits(SubSeq(date_str, 6, 7))
                  /\ IsDigits(SubSeq(date_str, 9, 10))
        fail(kind, msg) == PxOut(kind, msg, NoResult, NoExtract)
    IN  IF missing # {}
        THEN fail("ValueError", "AI response missing required field: " \o required_fields[SetMin(missing)])
        ELSE IF ~parsed.amount.num
        THEN fail("ValueError", "Invalid amount in AI response: [<class 'decimal.ConversionSyntax'>]")
        ELSE IF parsed.amount.milli <= 0
        THEN fail("ValueError", "Invalid amount in AI response: Amount must be positive")
        ELSE IF ~parsed.category_id.int
        THEN fail("ValueError", "invalid literal for int() with base 10")
        ELSE IF found = {}
        THEN fail("ValueError", "Category ID " \o IntToStr(category_id) \o " not found in user's categories")
        ELSE IF transaction_type \notin {"expense", "income"}
        THEN fail("ValueError", "Invalid type: " \o transaction_type \o ". Must be 'expense' or 'income'")
        ELSE IF category.type # (IF transaction_type = "expense" THEN EXPENSE ELSE INCOME)
        THEN fail("ValueError", "Category " \o category.name \o " (ID: " \o IntToStr(category_id)
                                \o ") is of type " \o category.type
                                \o ", but transaction type is " \o transaction_type)
        ELSE IF parsed_date = -1
        THEN (IF shaped THEN fail("ValueError", "day is out of range for month")
              ELSE fail("ValueError", "Invalid date format: " \o date_str \o ". Expected YYYY-MM-DD format"))
        ELSE IF FALSE
        THEN fail("ValueError", "Date " \o date_str \o " is in the future")
        ELSE IF parsed_date < today - MAX_PAST_DAYS
        THEN fail("ValueError", "Date " \o date_str \o " is too far in the past")
        ELSE PxOut("return", "",
                   Result(Quantize(parsed.amount.milli), category_id, Strip(parsed.description),
                          transaction_type, FormatIsoDate(parsed_date)),
                   NoExtract)

\* the validation that looks the category up before it converts the amount
_validate_and_normalize_response_category_first(parsed, categories, now_utc) ==
    LET missing == {i \in DOMAIN required_fields : required_fields[i] \notin parsed.has}
        category_id == parsed.category_id.n
        found == {c \in categories : c.id = category_id}
        category == CHOOSE c \in found : TRUE
        transaction_type == Lower(parsed.type)
        date_str == Strip(parsed.date)
        parsed_date == ParseIsoDate(date_str)
        today == ServerToday(now_utc)
        shaped == Len(date_str) = 10 /\ Chr(date_str, 5) = "-" /\ Chr(date_str, 8) = "-"
                  /\ IsDigits(SubSeq(date_str, 1, 4)) /\ IsDigits(SubSeq(date_str, 6, 7))
                  /\ IsDigits(SubSeq(date_str, 9, 10))
        fail(kind, msg) == PxOut(kind, msg, NoResult, NoExtract)
    IN  IF missing # {}
        THEN fail("ValueError", "AI response missing required field: " \o required_fields[SetMin(missing)])
        ELSE IF ~parsed.category_id.int
        THEN fail("ValueError", "invalid literal for int() with base 10")
        ELSE IF found = {}
        THEN fail("ValueError", "Category ID " \o IntToStr(category_id) \o " not found in user's categories")
        ELSE IF ~parsed.amount.num
        THEN fail("ValueError", "Invalid amount in AI response: [<class 'decimal.ConversionSyntax'>]")
        ELSE IF parsed.amount.milli <= 0
        THEN fail("ValueError", "Invalid amount in AI response: Amount must be positive")
        ELSE IF transaction_type \notin {"expense", "income"}
        THEN fail("ValueError", "Invalid type: " \o transaction_type \o ". Must be 'expense' or 'income'")
        ELSE IF category.type # (IF transaction_type = "expense" THEN EXPENSE ELSE INCOME)
        THEN fail("ValueError", "Category " \o category.name \o " (ID: " \o IntToStr(category_id)
                                \o ") is of type " \o category.type
                                \o ", but transaction type is " \o transaction_type)
        ELSE IF parsed_date = -1
        THEN (IF shaped THEN fail("ValueError", "day is out of range for month")
              ELSE fail("ValueError", "Invalid date format: " \o date_str \o ". Expected YYYY-MM-DD format"))
        ELSE IF parsed_date > today
        THEN fail("ValueError", "Date " \o date_str \o " is in the future")
        ELSE IF parsed_date < today - MAX_PAST_DAYS
        THEN fail("ValueError", "Date " \o date_str \o " is too far in the past")
        ELSE PxOut("return", "",
                   Result(Quantize(parsed.amount.milli), category_id, Strip(parsed.description),
                          transaction_type, FormatIsoDate(parsed_date)),
                   NoExtract)

_validate_and_normalize_response(parsed, categories, now_utc) ==
    LET missing == {i \in DOMAIN required_fields : required_fields[i] \notin parsed.has}
        category_id == parsed.category_id.n
        found == {c \in categories : c.id = category_id}
        category == CHOOSE c \in found : TRUE
        transaction_type == Lower(parsed.type)
        date_str == Strip(parsed.date)
        parsed_date == ParseIsoDate(date_str)
        today == ServerToday(now_utc)
        shaped == Len(date_str) = 10 /\ Chr(date_str, 5) = "-" /\ Chr(date_str, 8) = "-"
                  /\ IsDigits(SubSeq(date_str, 1, 4)) /\ IsDigits(SubSeq(date_str, 6, 7))
                  /\ IsDigits(SubSeq(date_str, 9, 10))
        fail(kind, msg) == PxOut(kind, msg, NoResult, NoExtract)
    IN  IF missing # {}
        THEN fail("ValueError", "AI response missing required field: " \o required_fields[SetMin(missing)])
        ELSE IF ~parsed.amount.num
        THEN fail("ValueError", "Invalid amount in AI response: [<class 'decimal.ConversionSyntax'>]")
        ELSE IF parsed.amount.milli <= 0
        THEN fail("ValueError", "Invalid amount in AI response: Amount must be positive")
        ELSE IF ~parsed.category_id.int
        THEN fail("ValueError", "invalid literal for int() with base 10")
        ELSE IF found = {}
        THEN fail("ValueError", "Category ID " \o IntToStr(category_id) \o " not found in user's categories")
        ELSE IF transaction_type \notin {"expense", "income"}
        THEN fail("ValueError", "Invalid type: " \o transaction_type \o ". Must be 'expense' or 'income'")
        ELSE IF category.type # (IF transaction_type = "expense" THEN EXPENSE ELSE INCOME)
        THEN fail("ValueError", "Category " \o category.name \o " (ID: " \o IntToStr(category_id)
                                \o ") is of type " \o category.type
                                \o ", but transaction type is " \o transaction_type)
        ELSE IF parsed_date = -1
        THEN (IF shaped THEN fail("ValueError", "day is out of range for month")
              ELSE fail("ValueError", "Invalid date format: " \o date_str \o ". Expected YYYY-MM-DD format"))
        ELSE IF parsed_date > today
        THEN fail("ValueError", "Date " \o date_str \o " is in the future")
        ELSE IF parsed_date < today - MAX_PAST_DAYS
        THEN fail("ValueError", "Date " \o date_str \o " is too far in the past")
        ELSE PxOut("return", "",
                   Result(Quantize(parsed.amount.milli), category_id, Strip(parsed.description),
                          transaction_type, FormatIsoDate(parsed_date)),
                   NoExtract)

\* the extraction that replaces the declared type by the type of the category it names
parse_transaction_correcting_type(text, categories, has_image, has_audio, now_utc) ==
    IF ~has_image /\ ~has_audio /\ (text = "" \/ Strip(text) = "")
    THEN { PxOut("ValueError", "Either transaction text, image_data, or audio_data must be provided",
                 NoResult, NoExtract) }
    ELSE IF categories = {}
    THEN { PxOut("ValueError", "At least one category must be provided", NoResult, NoExtract) }
    ELSE { IF ~x.ok
           THEN PxOut("RuntimeError", "Failed to parse transaction with AI: " \o PROVIDER_ERROR, NoResult, x)
           ELSE IF ~x.json
           THEN PxOut("ValueError", "AI response is not valid JSON: Expecting value", NoResult, x)
           ELSE LET named == {c \in categories : x.parsed.category_id.int /\ c.id = x.parsed.category_id.n}
                    corrected == IF named = {} THEN x.parsed
                                 ELSE [x.parsed EXCEPT !.type = (CHOOSE c \in named : TRUE).type]
                    v == _validate_and_normalize_response(corrected, categories, now_utc)
                IN  IF v.kind = "return"
                    THEN [v EXCEPT !.resp = x]
                    ELSE PxOut("RuntimeError", "Failed to parse transaction with AI: " \o v.value,
                               NoResult, x)
           : x \in ExtractResponses }

\* parse_transaction(text, categories, image_data=..., audio_data=...): has_image and
\* has_audio say whether the bytes are non-empty
parse_transaction(text, categories, has_image, has_audio, now_utc) ==
    IF ~has_image /\ ~has_audio /\ (text = "" \/ Strip(text) = "")
    THEN { PxOut("ValueError", "Either transaction text, image_data, or audio_data must be provided",
                 NoResult, NoExtract) }
    ELSE IF categories = {}
    THEN { PxOut("ValueError", "At least one category must be provided", NoResult, NoExtract) }
    ELSE { IF ~x.ok
           THEN PxOut("RuntimeError", "Failed to parse transaction with AI: " \o PROVIDER_ERROR, NoResult, x)
           ELSE IF ~x.json
           THEN PxOut("ValueError", "AI response is not valid JSON: Expecting value", NoResult, x)
           ELSE LET v == _validate_and_normalize_response(x.parsed, categories, now_utc)
                IN  IF v.kind = "return"
                    THEN [v EXCEPT !.resp = x]
                    ELSE PxOut("RuntimeError", "Failed to parse transaction with AI: " \o v.value,
                               NoResult, x)
           : x \in ExtractResponses }

\* _process_ai_date(date_str): (stored instant, display date)
\* the date resolution that compares the AI date with today's date in UTC
_process_ai_date_utc_today(date_str, now_utc) ==
    LET ai_date == ParseIsoDate(date_str)
        today_utc == UtcDate(now_utc)
    IN  IF ai_date = -1 THEN <<now_utc, UtcDate(now_utc)>>
        ELSE IF ai_date = today_utc THEN <<now_utc, ai_date>>
        ELSE <<ai_date * 24 + 12, ai_date>>

\* the date resolution that stores midnight UTC for a date that is not today
_process_ai_date_midnight(date_str, now_utc) ==
    LET ai_date == ParseIsoDate(date_str)
        today_colombia == LocalDate(now_utc)
    IN  IF ai_date = -1 THEN <<now_utc, UtcDate(now_utc)>>
        ELSE IF ai_date = today_colombia THEN <<now_utc, ai_date>>
        ELSE <<ai_date * 24, ai_date>>

\* the date resolution that stores noon of America/Bogota for a date that is not today
_process_ai_date_local_noon(date_str, now_utc) ==
    LET ai_date == ParseIsoDate(date_str)
        today_colombia == LocalDate(now_utc)
    IN  IF ai_date = -1 THEN <<now_utc, UtcDate(now_utc)>>
        ELSE IF ai_date = today_colombia THEN <<now_utc, ai_date>>
        ELSE <<ai_date * 24 + 12 - BOGOTA_UTC_OFFSET, ai_date>>

\* the date resolution that returns, for today, the date of the instant in UTC as the
\* display date
_process_ai_date_utc_display(date_str, now_utc) ==
    LET ai_date == ParseIsoDate(date_str)
        today_colombia == LocalDate(now_utc)
    IN  IF ai_date = -1 THEN <<now_utc, UtcDate(now_utc)>>
        ELSE IF ai_date = today_colombia THEN <<now_utc, UtcDate(now_utc)>>
        ELSE <<ai_date * 24 + 12, ai_date>>

_process_ai_date(date_str, now_utc) ==
    LET ai_date == ParseIsoDate(date_str)
        today_colombia == LocalDate(now_utc)
    IN  IF ai_date = -1 THEN <<now_utc, UtcDate(now_utc)>>
        ELSE IF ai_date = today_colombia THEN <<now_utc, ai_date>>
        ELSE <<ai_date * 24 + 12, ai_date>>


(***************************************************************************)
(* parse_amount (bot/utils/amounts.py).  A Decimal is its unscaled integer *)
(* and its number of fractional digits; an amount is a number of cents.    *)
(* The texts carry no exponent and no underscore.                          *)
(***************************************************************************)
RECURSIVE Pow10(_)
Pow10(k) == IF k = 0 THEN 1 ELSE 10 * Pow10(k - 1)

Dec(kind, neg, n, scale) == [kind |-> kind, neg |-> neg, n |-> n, scale |-> scale]

\* Decimal(s): a finite number, Infinity, NaN, or InvalidOperation for any other text
DecimalOf(s) ==
    LET t == Strip(s)
        signed == Len(t) > 0 /\ Chr(t, 1) \in {"-", "+"}
        neg == Len(t) > 0 /\ Chr(t, 1) = "-"
        body == IF signed THEN SubSeq(t, 2, Len(t)) ELSE t
        dots == {i \in 1..Len(body) : Chr(body, i) = "."}
        digits == ReplaceChar(body, ".", "")
    IN  IF Lower(body) \in {"inf", "infinity"} THEN Dec("inf", neg, 0, 0)
        ELSE IF Lower(body) \in {"nan", "snan"} THEN Dec("nan", neg, 0, 0)
        ELSE IF Cardinality(dots) <= 1 /\ IsDigits(digits)
        THEN Dec("finite", neg, StrToNat(digits),
                 IF dots = {} THEN 0 ELSE Len(body) - SetMin(dots))
        ELSE Dec("InvalidOperation", FALSE, 0, 0)

\* d.quantize(Decimal("0.01")) of a finite non-negative d, in cents: ROUND_HALF_EVEN
QuantizeCents(d) ==
    IF d.scale <= 2 THEN d.n * Pow10(2 - d.scale)
    ELSE LET unit == Pow10(d.scale - 2)
             q == d.n \div unit
             r == d.n % unit
         IN  IF 2 * r > unit \/ (2 * r = unit /\ q % 2 = 1) THEN q + 1 ELSE q

AmountOut(kind, cents) == [kind |-> kind, cents |-> cents]

\* parse_amount without the replacement of the comma
parse_amount_dot_only(value) ==
    LET normalized == Strip(value)
        amount == DecimalOf(normalized)
    IN  IF amount.kind \in {"InvalidOperation", "nan"} THEN AmountOut("InvalidOperation", 0)
        ELSE IF amount.neg \/ (amount.kind = "finite" /\ amount.n = 0)
        THEN AmountOut("InvalidOperation", 0)
        ELSE IF amount.kind = "inf" THEN AmountOut("InvalidOperation", 0)
        ELSE AmountOut("return", QuantizeCents(amount))

parse_amount(value) ==
    LET normalized == Strip(ReplaceChar(value, ",", "."))
        amount == DecimalOf(normalized)
    IN  \* Decimal(normalized) raises; the comparison of a NaN with 0 raises
        IF amount.kind \in {"InvalidOperation", "nan"} THEN AmountOut("InvalidOperation", 0)
        \* if amount <= 0: raise InvalidOperation
        ELSE IF amount.neg \/ (amount.kind = "finite" /\ amount.n = 0)
        THEN AmountOut("InvalidOperation", 0)
        \* the quantize of Infinity raises
        ELSE IF amount.kind = "inf" THEN AmountOut("InvalidOperation", 0)
        ELSE AmountOut("return", QuantizeCents(amount))

(***************************************************************************)
(* Display helpers (bot/utils/amounts.py)                                  *)
(***************************************************************************)
RECURSIVE GroupDots(_)
GroupDots(n) ==
    IF n < 1000 THEN NatToStr(n)
    ELSE GroupDots(n \div 1000) \o "." \o Pad(n % 1000, 3)

\* format_currency(amount) for an amount given in cents
format_currency(cents) ==
    LET a == IF cents < 0 THEN -cents ELSE cents
    IN  (IF cents < 0 THEN "-" ELSE "") \o "$" \o GroupDots(a \div 100) \o "," \o Pad(a % 100, 2)

\* date.strftime("%d/%m/%Y")
FormatDisplayDate(z) ==
    LET c == CivilFromDays(z) IN Pad(c[3], 2) \o "/" \o Pad(c[2], 2) \o "/" \o Pad(c[1], 4)

(***************************************************************************)
(* Natural-language router (bot/handlers/natural_language.py)              *)
(***************************************************************************)
\* texts the classification model call can return
ClassResponses ==
    { Resp(FALSE, PROVIDER_ERROR),
      Resp(TRUE, "register"),
      Resp(TRUE, " \"Query\"\n"),
      Resp(TRUE, "'REGISTER'"),
      Resp(TRUE, "No estoy seguro") }

ClassOut(kind, value, resp) == [kind |-> kind, value |-> value, resp |-> resp]

\* the classifier that falls back to "register"
_classify_intent_default_register(text, api_key) ==
    IF ~api_key
    THEN { ClassOut("RuntimeError", "GEMINI_API_KEY not configured", NoResp) }
    ELSE { IF ~c.ok THEN ClassOut("return", "register", c)
           ELSE LET classification ==
                        Strip(ReplaceChar(ReplaceChar(Lower(Strip(c.text)), "\"", ""), "'", ""))
                IN  IF classification \notin {"register", "query"}
                    THEN ClassOut("return", "register", c)
                    ELSE ClassOut("return", classification, c)
           : c \in ClassResponses }

_classify_intent(text, api_key) ==
    IF ~api_key
    THEN { ClassOut("RuntimeError", "GEMINI_API_KEY not configured", NoResp) }
    ELSE { IF ~c.ok THEN ClassOut("return", "query", c)
           ELSE LET classification ==
                        Strip(ReplaceChar(ReplaceChar(Lower(Strip(c.text)), "\"", ""), "'", ""))
                IN  IF classification \notin {"register", "query"}
                    THEN ClassOut("return", "query", c)
                    ELSE ClassOut("return", classification, c)
           : c \in ClassResponses }

\* the instants the clock can show when a handler reads it
T0 == DaysFromCivil(2025, 6, 15) * 24
NowSamples == {T0 + 2, T0 + 15}

\* texts a user can send
Questions ==
    { "¿Cuánto gasté en comida este mes?",
      "Quiero BORRAR todo",
      "Borra todas mis transacciones",
      "Gaste 20k en almuerzo ayer",
      "elimina mis gastos de Dropbox",
      "Por favor Actualizar el monto",
      "ok",
      "  " }

\* the tables of categories the handlers can leave: no user, one user, both users in
\* either order of arrival
TableSamples ==
    { {},
      create_default_categories({}, 7, {}),
      create_default_categories({}, 42, {}),
      create_default_categories(create_default_categories({}, 7, {}), 42, {}),
      create_default_categories(create_default_categories({}, 42, {}), 7, {}) }

CategorySets == { fetch_user_categories(table, u) : table \in TableSamples, u \in UserIds }

\* parse_transaction, tabulated over its arguments
parse_transaction_table ==
    [text \in Questions \cup {""}, categories \in CategorySets, has_image \in BOOLEAN,
     now_utc \in NowSamples |-> parse_transaction(text, categories, has_image, FALSE, now_utc)]

\* create_default_categories(session, user_id), tabulated over its arguments
create_default_categories_table ==
    [table \in TableSamples, user_id \in UserIds |-> create_default_categories(table, user_id, {})]

\* _classify_intent, tabulated over its arguments
_classify_intent_table ==
    [text \in Questions, api_key \in BOOLEAN |-> _classify_intent(text, api_key)]

\* a Transaction row; description is <<>> for NULL and <<s>> for the string s
Tx(id, user_id, category_id, amount, description, transaction_date) ==
    [id |-> id, user_id |-> user_id, category_id |-> category_id, amount |-> amount,
     description |-> description, transaction_date |-> transaction_date]

\* what one handler did: the tables it leaves, the messages it sent, the exception that
\* left it, and the calls it made
PxCall(called, out, now) == [called |-> called, out |-> out, now |-> now]
NoPx == PxCall(FALSE, PxOut("", "", NoResult, NoExtract), 0)
AqCall(called, kind, value, trace) == [called |-> called, kind |-> kind, value |-> value, trace |-> trace]
NoAq == AqCall(FALSE, "", "", <<>>)

HOut(table, txs, replies, raised, failed, px, aq, ret) ==
    [categories |-> table, transactions |-> txs, replies |-> replies, raised |-> raised,
     failed |-> failed, px |-> px, aq |-> aq, ret |-> ret]

\* get_ai_service() without an API key: the AIService constructor raises
NoKeyPx(now) ==
    PxCall(FALSE, PxOut("RuntimeError", "GEMINI_API_KEY environment variable is not set. Please set it to use the AI service.",
                        NoResult, NoExtract), now)

NOT_UNDERSTOOD == "No entendí bien ese gasto.\n\nIntenta así:\n* _'Gaste 20k en taxi'_\n* _'Recibí 500k de nómina'_"
NO_CATEGORIES == "No tienes categorías configuradas. Usa /categorias para crear algunas."
CATEGORY_MISSING == "Error: La categoría seleccionada no existe. Intenta nuevamente."
ROUTER_ERROR == "Ocurrió un error al procesar tu mensaje. Intenta nuevamente."
QUERY_NOT_PROCESSED == "No pude procesar tu consulta. Intenta reformularla o usar comandos específicos como /reporte_mes"
QUERY_ERROR == "Ocurrió un error al procesar tu consulta. Intenta nuevamente."
QUERY_UNEXPECTED == "Ocurrió un error inesperado. Intenta reformular tu pregunta."

register_confirmation(result, category, display_date) ==
    "OK **" \o (IF result.type = "expense" THEN "Gasto" ELSE "Ingreso") \o " registrado**\n\n"
    \o (IF result.description # "" THEN result.description ELSE "Sin descripción") \o "\n"
    \o format_currency(result.amount) \o "\n"
    \o category.name \o "\n"
    \o FormatDisplayDate(display_date)

\* the part of _handle_register that follows parse_transaction
register_after_parse(r, user_id, table, txs, categories, now_utc) ==
    LET px == PxCall(TRUE, r, now_utc) IN
    IF r.kind # "return"
    THEN { HOut(table, txs, <<NOT_UNDERSTOOD>>, "", {"extraction"}, px, NoAq, "") }
    ELSE LET result == r.result
             found == {c \in categories : c.id = result.category_id}
             category == CHOOSE c \in found : TRUE
             d == _process_ai_date(result.date, now_utc)
             transaction == Tx(Len(txs) + 1, user_id, result.category_id, result.amount,
                               IF result.description # "" THEN <<result.description>> ELSE <<>>,
                               d[1])
         IN  IF found = {}
             THEN { HOut(table, txs, <<CATEGORY_MISSING>>, "", {}, px, NoAq, "") }
             ELSE { HOut(table, Append(txs, transaction),
                         <<register_confirmation(result, category, d[2])>>, "", {}, px, NoAq, ""),
                    \* session.commit() raises
                    HOut(table, txs, <<>>, "SQLAlchemyError", {"persistence"}, px, NoAq, ""),
                    \* the row is committed and reply_text of the confirmation raises
                    HOut(table, Append(txs, transaction), <<>>, "TelegramError", {"reply"},
                         px, NoAq, "") }

_handle_register(text, user_id, table, txs, api_key) ==
    LET setup == create_default_categories_table[table, user_id]
        categories == fetch_user_categories(setup, user_id)
    IN  \* the session, the SELECT or the commit of create_default_categories raises
        { HOut(table, txs, <<>>, "SQLAlchemyError", {"persistence"}, NoPx, NoAq, "") }
        \cup
        (IF categories = {}
         THEN { HOut(setup, txs, <<NO_CATEGORIES>>, "", {}, NoPx, NoAq, "") }
         ELSE IF ~api_key
         THEN { HOut(setup, txs, <<NOT_UNDERSTOOD>>, "", {"extraction"}, NoKeyPx(0), NoAq, "") }
         ELSE UNION { UNION { register_after_parse(r, user_id, setup, txs, categories, now_utc)
                              : r \in parse_transaction_table[text, categories, FALSE, now_utc] }
                      : now_utc \in NowSamples })

\* the texts the handlers of the bot are run on
Messages == { "Gaste 20k en almuerzo ayer", "ok", "  " }

\* answer_question, tabulated over the texts a user can send
answer_question_table ==
    [q \in Questions, u \in UserIds |-> answer_question(q, u)]

\* the query handler that shows the message of a RuntimeError to the user
_handle_query_leaking(text, user_id, table, txs, api_key) ==
    IF ~api_key
    THEN \* get_analytics_service(): the AnalyticsService constructor raises RuntimeError
         { HOut(table, txs, <<QUERY_ERROR>>, "", {"analytics"},
                NoPx, AqCall(FALSE, "RuntimeError", "GEMINI_API_KEY environment variable is not set. Please set it to use the analytics service.", <<>>), "") }
    ELSE { LET aq == AqCall(TRUE, o.kind, o.value, o.trace) IN
           IF o.kind = "return" THEN HOut(table, txs, <<o.value>>, "", {}, NoPx, aq, "")
           ELSE IF o.kind = "ValueError"
           THEN HOut(table, txs, <<QUERY_NOT_PROCESSED>>, "", {"analytics"}, NoPx, aq, "")
           ELSE IF o.kind = "RuntimeError"
           THEN HOut(table, txs, <<"Error: " \o o.value>>, "", {"analytics"}, NoPx, aq, "")
           ELSE HOut(table, txs, <<QUERY_UNEXPECTED>>, "", {"analytics"}, NoPx, aq, "")
           : o \in answer_question_table[text, user_id] }

\* the query handler that apologises whatever the service answered
query_after_answer_raw(o, table, txs) ==
    HOut(table, txs, <<QUERY_NOT_PROCESSED>>, "", {}, NoPx, AqCall(TRUE, o.kind, o.value, o.trace), "")

\* the part of _handle_query that follows answer_question: the reply for each outcome
query_after_answer(o, table, txs) ==
    LET aq == AqCall(TRUE, o.kind, o.value, o.trace) IN
    IF o.kind = "return" THEN HOut(table, txs, <<o.value>>, "", {}, NoPx, aq, "")
    ELSE IF o.kind = "ValueError"
    THEN HOut(table, txs, <<QUERY_NOT_PROCESSED>>, "", {"analytics"}, NoPx, aq, "")
    ELSE IF o.kind = "RuntimeError"
    THEN HOut(table, txs, <<QUERY_ERROR>>, "", {"analytics"}, NoPx, aq, "")
    ELSE HOut(table, txs, <<QUERY_UNEXPECTED>>, "", {"analytics"}, NoPx, aq, "")

\* get_analytics_service() without an API key: the AnalyticsService constructor raises
query_no_service(table, txs) ==
    HOut(table, txs, <<QUERY_ERROR>>, "", {"analytics"},
         NoPx, AqCall(FALSE, "RuntimeError", "GEMINI_API_KEY environment variable is not set. Please set it to use the analytics service.", <<>>), "")

_handle_query(text, user_id, table, txs, api_key) ==
    IF ~api_key
    THEN { query_no_service(table, txs) }
    ELSE { query_after_answer(o, table, txs) : o \in answer_question_table[text, user_id] }

\* the outer except clause of process_user_text_input
router_except(o) ==
    IF o.raised = "" THEN o
    ELSE [o EXCEPT !.raised = "", !.replies = @ \o <<ROUTER_ERROR>>]

\* the router without the guard on the flags of the structured flows
process_user_text_input_ignoring_flags(text, user_id, ud, table, txs, api_key) ==
    LET silent == { [out |-> HOut(table, txs, <<>>, "", {}, NoPx, NoAq, ""), intent |-> "",
                     cls |-> ClassOut("", "", NoResp)] }
        classified == _classify_intent_table[text, api_key]
        intent_of(c) == IF c.kind = "return" THEN c.value ELSE "register"
        routed(intent) ==
            LET branch == IF intent = "query"
                          THEN _handle_query(text, user_id, table, txs, api_key)
                          ELSE _handle_register(text, user_id, table, txs, api_key)
            IN  UNION { { [out |-> router_except(
                                      IF c.kind = "return" THEN o
                                      ELSE [o EXCEPT !.failed = @ \cup {"classification"}]),
                           intent |-> intent, cls |-> c] : o \in branch }
                        : c \in {k \in classified : intent_of(k) = intent} }
    IN  IF text = "" \/ Strip(text) = "" THEN silent
        ELSE IF Len(Strip(text)) < 3 THEN silent
        ELSE UNION { routed(intent) : intent \in {intent_of(c) : c \in classified} }

\* the router that treats a classification that raised as a query
process_user_text_input_default_query(text, user_id, ud, table, txs, api_key) ==
    LET silent == { [out |-> HOut(table, txs, <<>>, "", {}, NoPx, NoAq, ""), intent |-> "",
                     cls |-> ClassOut("", "", NoResp)] }
        classified == _classify_intent_table[text, api_key]
        intent_of(c) == IF c.kind = "return" THEN c.value ELSE "query"
        routed(intent) ==
            LET branch == IF intent = "query"
                          THEN _handle_query(text, user_id, table, txs, api_key)
                          ELSE _handle_register(text, user_id, table, txs, api_key)
            IN  UNION { { [out |-> router_except(
                                      IF c.kind = "return" THEN o
                                      ELSE [o EXCEPT !.failed = @ \cup {"classification"}]),
                           intent |-> intent, cls |-> c] : o \in branch }
                        : c \in {k \in classified : intent_of(k) = intent} }
    IN  IF text = "" \/ Strip(text) = "" THEN silent
        ELSE IF Len(Strip(text)) < 3 THEN silent
        ELSE IF ud.pending_transaction \/ ud.budget_flow THEN silent
        ELSE UNION { routed(intent) : intent \in {intent_of(c) : c \in classified} }

\* process_user_text_input: outcomes paired with the intent the router used
process_user_text_input(text, user_id, ud, table, txs, api_key) ==
    LET silent == { [out |-> HOut(table, txs, <<>>, "", {}, NoPx, NoAq, ""), intent |-> "",
                     cls |-> ClassOut("", "", NoResp)] }
        classified == _classify_intent_table[text, api_key]
        intent_of(c) == IF c.kind = "return" THEN c.value ELSE "register"
        routed(intent) ==
            LET branch == IF intent = "query"
                          THEN _handle_query(text, user_id, table, txs, api_key)
                          ELSE _handle_register(text, user_id, table, txs, api_key)
            IN  UNION { { [out |-> router_except(
                                      IF c.kind = "return" THEN o
                                      ELSE [o EXCEPT !.failed = @ \cup {"classification"}]),
                           intent |-> intent, cls |-> c] : o \in branch }
                        : c \in {k \in classified : intent_of(k) = intent} }
    IN  IF text = "" \/ Strip(text) = "" THEN silent
        ELSE IF Len(Strip(text)) < 3 THEN silent
        ELSE IF ud.pending_transaction \/ ud.budget_flow THEN silent
        ELSE UNION { routed(intent) : intent \in {intent_of(c) : c \in classified} }


(***************************************************************************)
(* Photo handler (bot/handlers/media_handler.py)                           *)
(***************************************************************************)
PHOTO_PROCESSING == "Analizando la factura..."
PHOTO_NOT_READ == "No pude leer bien esa foto.\n\n**Tips:**\n* Intenta con mejor luz.\n* Enfoca solo el total y el comercio.\n* O escríbeme: _'Gaste 50k en mercado'_"
PHOTO_ERROR == "Ocurrió un error al procesar la foto. Intenta nuevamente."

photo_confirmation(result, category, display_date) ==
    "OK **" \o (IF result.type = "expense" THEN "Gasto" ELSE "Ingreso") \o " registrado desde foto**\n\n"
    \o (IF result.description # "" THEN result.description ELSE "Sin descripción") \o "\n"
    \o format_currency(result.amount) \o "\n"
    \o category.name \o "\n"
    \o FormatDisplayDate(display_date)

\* the part of handle_photo_message that follows parse_transaction
photo_after_parse(r, user_id, table, txs, categories, now_utc) ==
    LET px == PxCall(TRUE, r, now_utc) IN
    IF r.kind # "return"
    THEN { HOut(table, txs, <<PHOTO_PROCESSING, PHOTO_NOT_READ>>, "", {"extraction"}, px, NoAq, "") }
    ELSE LET result == r.result
             found == {c \in categories : c.id = result.category_id}
             category == CHOOSE c \in found : TRUE
             d == _process_ai_date(result.date, now_utc)
             transaction == Tx(Len(txs) + 1, user_id, result.category_id, result.amount,
                               IF result.description # "" THEN <<result.description>> ELSE <<>>,
                               d[1])
         IN  IF found = {}
             THEN { HOut(table, txs, <<PHOTO_PROCESSING, CATEGORY_MISSING>>, "", {}, px, NoAq, "") }
             ELSE { HOut(table, Append(txs, transaction),
                         <<PHOTO_PROCESSING, photo_confirmation(result, category, d[2])>>,
                         "", {}, px, NoAq, ""),
                    \* session.commit() raises: the outer except replies
                    HOut(table, txs, <<PHOTO_PROCESSING, PHOTO_ERROR>>, "", {"persistence"}, px, NoAq, ""),
                    \* the row is committed and edit_text of the confirmation raises: the
                    \* outer except replies
                    HOut(table, Append(txs, transaction), <<PHOTO_PROCESSING, PHOTO_ERROR>>,
                         "", {"reply"}, px, NoAq, "") }

handle_photo_message(user_id, ud, table, txs, api_key) ==
    LET setup == create_default_categories_table[table, user_id]
        categories == fetch_user_categories(setup, user_id)
    IN  IF ud.pending_transaction \/ ud.budget_flow
        THEN { HOut(table, txs, <<>>, "", {}, NoPx, NoAq, "") }
        ELSE { HOut(table, txs, <<PHOTO_PROCESSING, PHOTO_ERROR>>, "", {"persistence"}, NoPx, NoAq, "") }
             \cup
             (IF categories = {}
              THEN { HOut(setup, txs, <<PHOTO_PROCESSING, NO_CATEGORIES>>, "", {}, NoPx, NoAq, "") }
              ELSE IF ~api_key
              THEN { HOut(setup, txs, <<PHOTO_PROCESSING, PHOTO_NOT_READ>>, "", {"extraction"},
                          NoKeyPx(0), NoAq, "") }
              ELSE UNION { UNION { photo_after_parse(r, user_id, setup, txs, categories, now_utc)
                                   : r \in parse_transaction_table["", categories, TRUE, now_utc] }
                           : now_utc \in NowSamples })

(***************************************************************************)
(* Onboarding demo (bot/handlers/onboarding.py)                            *)
(***************************************************************************)
END == "END"
ONBOARDING_DEMO == "ONBOARDING_DEMO"
ONBOARDING_CATEGORY_CHOICES == "ONBOARDING_CATEGORY_CHOICES"

ONBOARDING_CATEGORY_NAMES ==
    {DEFAULT_CATEGORY_DEFINITIONS[i].name : i \in DOMAIN DEFAULT_CATEGORY_DEFINITIONS}

DEMO_AUDIO_NOT_UNDERSTOOD == "No pude entender el audio. Intenta escribiéndolo o graba nuevamente."
DEMO_AUDIO_ERROR == "Hubo un error al procesar el audio. Intenta escribiéndolo."
DEMO_EMPTY == "Por favor, escribe algo como: _'Gaste 20k en almuerzo ayer'_"
DEMO_NO_CATEGORIES == "No pude procesar el demo. Intenta configurar primero."
DEMO_CATEGORY_MISSING == "No pude encontrar la categoría. Intenta nuevamente."
DEMO_ERROR == "Hubo un error al procesar. Intenta nuevamente o elige 'Configurar' para continuar."
DEMO_CATEGORIES_PROMPT == "Estas son categorías sugeridas. Toca para activar o desactivar las que quieras conservar."

demo_confirmation(result, category, display_date) ==
    "¡Perfecto! OK\n\nRegistré: **" \o format_currency(result.amount) \o "** en **" \o category.name
    \o "**\nFecha: " \o FormatDisplayDate(display_date) \o "\n"
    \o (IF result.description # "" THEN "Descripción: " \o result.description \o "\n" ELSE "")
    \o "\n¡Así de fácil es! Ahora configuremos tus categorías reales..."

\* texts the transcription model call can return
\* the texts the demo is run on
DemoTexts == { "Gaste 20k en almuerzo ayer", "  " }

TranscribeResponses ==
    { Resp(FALSE, PROVIDER_ERROR), Resp(TRUE, "  "), Resp(TRUE, "Gaste 20k en almuerzo ayer") }

\* the part of onboarding_demo_process that follows parse_transaction
demo_after_parse(r, user_id, table, txs, categories, now_utc) ==
    LET px == PxCall(TRUE, r, now_utc) IN
    IF r.kind # "return"
    THEN { HOut(table, txs, <<DEMO_ERROR>>, "", {"extraction"}, px, NoAq, ONBOARDING_DEMO) }
    ELSE LET result == r.result
             d == _process_ai_date(result.date, now_utc)
             found == {c \in categories : c.id = result.category_id}
             category == CHOOSE c \in found : TRUE
             transaction == Tx(Len(txs) + 1, user_id, category.id, result.amount,
                               <<result.description>>, d[1])
         IN  IF found = {}
             THEN { HOut(table, txs, <<DEMO_CATEGORY_MISSING>>, "", {}, px, NoAq, ONBOARDING_DEMO) }
             ELSE { HOut(table, Append(txs, transaction),
                         <<demo_confirmation(result, category, d[2]), DEMO_CATEGORIES_PROMPT>>,
                         "", {}, px, NoAq, ONBOARDING_CATEGORY_CHOICES),
                    \* session.commit() raises: the except clause replies
                    HOut(table, txs, <<DEMO_ERROR>>, "", {"persistence"}, px, NoAq, ONBOARDING_DEMO) }

\* the part of onboarding_demo_process that follows the transcription of a voice note
demo_process_text(text, user_id, table, txs, api_key) ==
    LET setup == create_default_categories_table[table, user_id]
        categories == fetch_user_categories(setup, user_id)
    IN  IF Strip(text) = ""
        THEN { HOut(table, txs, <<DEMO_EMPTY>>, "", {}, NoPx, NoAq, ONBOARDING_DEMO) }
        ELSE { HOut(table, txs, <<DEMO_ERROR>>, "", {"persistence"}, NoPx, NoAq, ONBOARDING_DEMO) }
             \cup
             (IF categories = {}
              THEN { HOut(setup, txs, <<DEMO_NO_CATEGORIES>>, "", {}, NoPx, NoAq, ONBOARDING_DEMO) }
              ELSE IF ~api_key
              THEN { HOut(setup, txs, <<DEMO_ERROR>>, "", {"extraction"}, NoKeyPx(0), NoAq, ONBOARDING_DEMO) }
              ELSE UNION { UNION { demo_after_parse(r, user_id, setup, txs, categories, now_utc)
                                   : r \in parse_transaction_table[text, categories, FALSE, now_utc] }
                           : now_utc \in NowSamples })

\* onboarding_demo_process for a message that carries text (is_voice = FALSE) or a voice note
onboarding_demo_process(text, is_voice, user_id, table, txs, api_key) ==
    IF ~is_voice
    THEN demo_process_text(text, user_id, table, txs, api_key)
    ELSE IF ~api_key
    THEN { HOut(table, txs, <<DEMO_AUDIO_ERROR>>, "", {"transcription"}, NoPx, NoAq, ONBOARDING_DEMO) }
    ELSE UNION { IF ~t.ok
                 THEN { HOut(table, txs, <<DEMO_AUDIO_ERROR>>, "", {"transcription"}, NoPx, NoAq, ONBOARDING_DEMO) }
                 ELSE IF Strip(Strip(t.text)) = ""
                 THEN { HOut(table, txs, <<DEMO_AUDIO_NOT_UNDERSTOOD>>, "", {}, NoPx, NoAq, ONBOARDING_DEMO) }
                 ELSE demo_process_text(Strip(t.text), user_id, table, txs, api_key)
                 : t \in TranscribeResponses }


(***************************************************************************)
(* CallbackManager: the callback_data of inline buttons.  A call returns   *)
(* [kind, value]: kind "return" with the value, or kind "ValueError".      *)
(***************************************************************************)
MAX_CALLBACK_DATA_BYTES == 64

SEPARATOR == ":"

\* the values of the enumeration CallbackType
CallbackType ==
    [CATEGORY |-> "c", CATEGORY_MANAGE |-> "cm", CATEGORY_ADD_TYPE |-> "ct", SETTINGS |-> "s",
     DELETE_TRANSACTION |-> "dt", EXPENSE_DESC |-> "ed", ONBOARDING |-> "o",
     GOAL_CONTRIB |-> "gc", GOALS |-> "g", BUDGETS |-> "b", BUDGET_CAT |-> "bc",
     DELETE_CATEGORY |-> "dc", RENAME_CATEGORY |-> "rc"]

Returned(value) == [kind |-> "return", value |-> value]
ValueError == [kind |-> "ValueError", value |-> ""]

\* len(s.encode("utf-8")) for the characters the model writes: the accented letters and
\* the inverted marks take two bytes, the rest one
Utf8Len(s) ==
    Len(s) + Cardinality({ i \in 1..Len(s) :
                             \E j \in 1..14 : Chr("áéíóúñÁÉÍÓÚÑ¿¡", j) = Chr(s, i) })

RECURSIVE Join(_, _)
\* sep.join(parts)
Join(parts, sep) ==
    IF Len(parts) = 0 THEN ""
    ELSE IF Len(parts) = 1 THEN parts[1]
    ELSE parts[1] \o sep \o Join(Tail(parts), sep)

RECURSIVE Split(_, _)
\* s.split(sep) for a single character sep
Split(s, sep) ==
    LET i == Find(s, sep, 0)
    IN  IF i < 0 THEN <<s>>
        ELSE <<SubSeq(s, 1, i)>> \o Split(SubSeq(s, i + 2, Len(s)), sep)

\* whether int() reads the digit string with underscores body: single underscores between digits
IntBody(body) ==
    /\ Len(body) > 0
    /\ \A i \in 1..Len(body) : IsDigit(Chr(body, i)) \/ Chr(body, i) = "_"
    /\ Chr(body, 1) # "_" /\ Chr(body, Len(body)) # "_"
    /\ ~Contains(body, "__")

RECURSIVE DropChar(_, _)
DropChar(s, ch) ==
    IF Len(s) = 0 THEN ""
    ELSE (IF Chr(s, 1) = ch THEN "" ELSE Chr(s, 1)) \o DropChar(SubSeq(s, 2, Len(s)), ch)

\* int(s) for a str: blanks around, an optional sign, digits
PyInt(s) ==
    LET t    == Strip(s)
        sign == IF Len(t) > 0 /\ Chr(t, 1) \in {"+", "-"} THEN Chr(t, 1) ELSE ""
        body == SubSeq(t, Len(sign) + 1, Len(t))
    IN  IF ~IntBody(body) THEN ValueError
        ELSE Returned((IF sign = "-" THEN 0 - 1 ELSE 1) * StrToNat(DropChar(body, "_")))

\* _validate_length that counts characters instead of bytes
_validate_length_chars(callback_data) == Len(callback_data) > MAX_CALLBACK_DATA_BYTES

\* _validate_length raises
_validate_length(callback_data) == Utf8Len(callback_data) > MAX_CALLBACK_DATA_BYTES

_build_callback(callback_type, parts) ==
    LET callback_data == Join(<<callback_type>> \o parts, SEPARATOR)
    IN  IF _validate_length(callback_data) THEN ValueError ELSE Returned(callback_data)

\* _parse_callback without the comparison of the prefix
_parse_callback_any_type(callback_data, expected_type) ==
    LET parts == Split(callback_data, SEPARATOR) IN Returned(Tail(parts))

_parse_callback(callback_data, expected_type) ==
    LET parts == Split(callback_data, SEPARATOR)
    IN  IF parts[1] # expected_type THEN ValueError ELSE Returned(Tail(parts))

\* the body the parsers of an id share: one part, read by int()
parse_single_id(callback_data, expected_type) ==
    LET parts == _parse_callback(callback_data, expected_type)
    IN  IF parts.kind # "return" THEN ValueError
        ELSE IF Len(parts.value) # 1 THEN ValueError
        ELSE PyInt(parts.value[1])

\* CallbackManager.category (the handlers call their local row category)
build_category(category_id) == _build_callback(CallbackType.CATEGORY, <<IntToStr(category_id)>>)
delete_transaction(transaction_id) ==
    _build_callback(CallbackType.DELETE_TRANSACTION, <<IntToStr(transaction_id)>>)
goal_contribution(goal_id) == _build_callback(CallbackType.GOAL_CONTRIB, <<IntToStr(goal_id)>>)
budget_category(category_id) ==
    _build_callback(CallbackType.BUDGET_CAT, <<IntToStr(category_id)>>)
delete_category(category_id) ==
    _build_callback(CallbackType.DELETE_CATEGORY, <<IntToStr(category_id)>>)
rename_category(category_id) ==
    _build_callback(CallbackType.RENAME_CATEGORY, <<IntToStr(category_id)>>)
expense_desc(choice) == _build_callback(CallbackType.EXPENSE_DESC, <<choice>>)
\* CallbackManager.settings, goals and budgets (the tables take the names goals and budgets)
build_settings(action, args) == _build_callback(CallbackType.SETTINGS, <<action>> \o args)
build_goals(action) == _build_callback(CallbackType.GOALS, <<action>>)
build_budgets(action) == _build_callback(CallbackType.BUDGETS, <<action>>)
category_manage(action) == _build_callback(CallbackType.CATEGORY_MANAGE, <<action>>)
category_add_type(category_type) ==
    _build_callback(CallbackType.CATEGORY_ADD_TYPE, <<category_type>>)

parse_category(callback_data) == parse_single_id(callback_data, CallbackType.CATEGORY)
parse_delete_transaction(callback_data) ==
    parse_single_id(callback_data, CallbackType.DELETE_TRANSACTION)
parse_goal_contribution(callback_data) ==
    parse_single_id(callback_data, CallbackType.GOAL_CONTRIB)
parse_budget_category(callback_data) ==
    parse_single_id(callback_data, CallbackType.BUDGET_CAT)
parse_delete_category(callback_data) ==
    parse_single_id(callback_data, CallbackType.DELETE_CATEGORY)
parse_rename_category(callback_data) ==
    parse_single_id(callback_data, CallbackType.RENAME_CATEGORY)

\* parse_expense_desc: one part, returned as it is
parse_expense_desc(callback_data) ==
    LET parts == _parse_callback(callback_data, CallbackType.EXPENSE_DESC)
    IN  IF parts.kind # "return" THEN ValueError
        ELSE IF Len(parts.value) # 1 THEN ValueError
        ELSE Returned(parts.value[1])

\* re.match of the pattern ^<prefix>:\d+$ the handlers of id buttons are registered with
MatchesIdPattern(data, prefix) ==
    /\ StartsWith(data, prefix \o ":")
    /\ IsDigits(SubSeq(data, Len(prefix) + 2, Len(data)))


(***************************************************************************)
(* The manual flows (bot/handlers/transactions.py).  A handler is given    *)
(* the user_data ud of its user and the tables, and returns what it leaves:*)
(* the user_data, the tables, the sequence of transactions.id, its replies,*)
(* the state it returns and whether it committed.                          *)
(***************************************************************************)
\* the states of bot/conversation_states.py the model uses
EXPENSE_AMOUNT == "EXPENSE_AMOUNT"
EXPENSE_CATEGORY == "EXPENSE_CATEGORY"
EXPENSE_DESCRIPTION_DECISION == "EXPENSE_DESCRIPTION_DECISION"
EXPENSE_DESCRIPTION_INPUT == "EXPENSE_DESCRIPTION_INPUT"
INCOME_AMOUNT == "INCOME_AMOUNT"
INCOME_CATEGORY == "INCOME_CATEGORY"
BUDGET_CATEGORY_SELECT == "BUDGET_CATEGORY_SELECT"
BUDGET_AMOUNT_INPUT == "BUDGET_AMOUNT_INPUT"
GOAL_NAME_INPUT == "GOAL_NAME_INPUT"
GOAL_TARGET_INPUT == "GOAL_TARGET_INPUT"
GOAL_CONTRIBUTION_SELECT == "GOAL_CONTRIBUTION_SELECT"
GOAL_CONTRIBUTION_AMOUNT == "GOAL_CONTRIBUTION_AMOUNT"

\* context.user_data["pending_transaction"]: the keys the dict holds and their values
NoPending == [keys |-> {}, amount |-> 0, type |-> "", category_id |-> 0, category_name |-> ""]

\* context.user_data["budget_flow"], ["goal_creation"] and ["goal_contribution"]
NoBudgetFlow == [category_id |-> 0]
NoGoalCreation == [present |-> FALSE, name |-> ""]
NoGoalContribution == [present |-> FALSE, goal_id |-> 0, goal_name |-> ""]

FOut(ud, table, txs, seq, replies, ret, committed) ==
    [user_data |-> ud, categories |-> table, transactions |-> txs, tx_seq |-> seq,
     replies |-> replies, ret |-> ret, committed |-> committed]

\* _store_pending_transaction: a new dict with the amount and the type
_store_pending_transaction(ud, amount, category_type) ==
    [ud EXCEPT !.pending_transaction = TRUE,
               !.pending = [keys |-> {"amount", "type"}, amount |-> amount,
                            type |-> category_type, category_id |-> 0, category_name |-> ""]]

_clear_pending_transaction(ud) ==
    [ud EXCEPT !.pending_transaction = FALSE, !.pending = NoPending]

\* session.add(Transaction(...)) and the flush: the row takes the next value of the
\* sequence and, as transaction_date, the default _get_utc_now()
add_transaction(txs, seq, user_id, category_id, amount, description, now_utc) ==
    Append(txs, Tx(seq + 1, user_id, category_id, amount, description, now_utc))

\* _send_category_prompt: the table it leaves and the message it sends
_send_category_prompt(table, user_id, category_type) ==
    LET after == create_default_categories(table, user_id, {})
        found == {c \in after : c.user_id = user_id /\ c.type = category_type}
    IN  [categories |-> after,
         reply |-> IF found = {}
                   THEN "No encontré categorías para este tipo. Escribe una descripción para usar la categoría general."
                   ELSE "¿En qué categoría? (o escribe una descripción)",
         buttons |-> {build_category(c.id).value : c \in found}]

start_expense(ud, table, txs, seq) ==
    FOut([ud EXCEPT !.pending_transaction = TRUE,
                    !.pending = [NoPending EXCEPT !.keys = {"type"}, !.type = EXPENSE]],
         table, txs, seq, <<"¿Cuál es el monto?">>, EXPENSE_AMOUNT, FALSE)

expense_amount_received(text, user_id, ud, table, txs, seq) ==
    LET amount == parse_amount(text)
        prompt == _send_category_prompt(table, user_id, EXPENSE)
    IN  IF amount.kind # "return"
        THEN FOut(ud, table, txs, seq,
                  <<"Monto no válido. Intenta nuevamente con un número positivo.">>,
                  EXPENSE_AMOUNT, FALSE)
        ELSE FOut(_store_pending_transaction(ud, amount.cents, EXPENSE), prompt.categories, txs, seq,
                  <<prompt.reply>>, EXPENSE_CATEGORY, prompt.categories # table)

\* the selection of a category that saves the transaction at once, as the income flow does
expense_category_selected_saving(data, user_id, ud, table, txs, seq, now_utc) ==
    LET category_id == parse_category(data)
    IN  IF ~ud.pending_transaction \/ "amount" \notin ud.pending.keys \/ category_id.kind # "return"
        THEN FOut(_clear_pending_transaction(ud), table, txs, seq, <<>>, END, FALSE)
        ELSE FOut(_clear_pending_transaction(ud), table,
                  add_transaction(txs, seq, user_id, category_id.value, ud.pending.amount, "", now_utc),
                  seq + 1, <<"Gasto registrado correctamente en la categoría seleccionada.">>,
                  END, TRUE)

expense_category_selected(data, user_id, ud, table, txs, seq, now_utc) ==
    LET category_id == parse_category(data)
        category == {c \in table : category_id.kind = "return" /\ c.id = category_id.value}
        done(cleared, reply) ==
            FOut(IF cleared THEN _clear_pending_transaction(ud) ELSE ud, table, txs, seq,
                 <<reply>>, END, FALSE)
    IN  IF ~ud.pending_transaction
        THEN done(FALSE, "No pude recuperar la información del monto. Intenta con /gasto de nuevo.")
        ELSE IF "amount" \notin ud.pending.keys
        THEN done(TRUE, "No pude recuperar la información del monto. Intenta con /gasto de nuevo.")
        ELSE IF category_id.kind # "return"
        THEN done(TRUE, "Selección inválida. Usa /gasto para intentarlo nuevamente.")
        ELSE IF category = {} \/ \E c \in category : c.user_id # user_id
        THEN done(TRUE, "No pude identificar la categoría seleccionada. Usa /gasto para intentarlo nuevamente.")
        ELSE LET c == CHOOSE c \in category : TRUE
             IN  FOut([ud EXCEPT !.pending.keys = @ \cup {"category_id", "category_name"},
                                 !.pending.category_id = c.id,
                                 !.pending.category_name = c.name],
                      table, txs, seq,
                      <<"Registrarás " \o format_currency(ud.pending.amount) \o " en la categoría "
                        \o c.name \o ". ¿Quieres agregar una descripción?">>,
                      EXPENSE_DESCRIPTION_DECISION, FALSE)

EXPENSE_SAVED_TIP ==
    ".\n\n**Tip:** La próxima vez no necesitas comandos. Solo escríbeme 'Gaste 50k' y yo hago el resto."

expense_description_decision(data, user_id, ud, table, txs, seq, now_utc) ==
    LET choice == parse_expense_desc(data)
        done(cleared, reply, ret) ==
            FOut(IF cleared THEN _clear_pending_transaction(ud) ELSE ud, table, txs, seq,
                 <<reply>>, ret, FALSE)
    IN  IF ~ud.pending_transaction
        THEN done(FALSE, "No encontré la información previa. Usa /gasto para empezar otra vez.", END)
        ELSE IF ~({"amount", "category_id"} \subseteq ud.pending.keys)
        THEN done(TRUE, "Perdí algunos datos del registro. Empieza nuevamente con /gasto.", END)
        ELSE IF choice.kind # "return"
        THEN done(FALSE, "Error al procesar la selección. Intenta nuevamente.", END)
        ELSE IF choice.value = "yes"
        THEN done(FALSE, "Perfecto, escribe la descripción del gasto.", EXPENSE_DESCRIPTION_INPUT)
        ELSE IF choice.value = "no"
        THEN FOut(_clear_pending_transaction(ud), table,
                  add_transaction(txs, seq, user_id, ud.pending.category_id, ud.pending.amount,
                                  "", now_utc),
                  seq + 1,
                  <<"Gasto registrado correctamente en la categoría "
                    \o (IF ud.pending.category_name # "" THEN ud.pending.category_name
                        ELSE "seleccionada") \o EXPENSE_SAVED_TIP>>,
                  END, TRUE)
        ELSE done(TRUE, "Opción inválida. Empieza nuevamente con /gasto.", END)

\* get_default_category: the rows the query can return
get_default_category(table, user_id, category_type) ==
    {c \in table : c.user_id = user_id /\ c.type = category_type /\ c.is_default}

expense_description_received(text, user_id, ud, table, txs, seq, now_utc) ==
    LET description == Strip(text)
        has_category == "category_id" \in ud.pending.keys
        chosen == {c \in table : c.id = ud.pending.category_id}
        default == get_default_category(table, user_id, EXPENSE)
        done(cleared, reply, ret) ==
            { FOut(IF cleared THEN _clear_pending_transaction(ud) ELSE ud, table, txs, seq,
                   <<reply>>, ret, FALSE) }
        saved(c) ==
            FOut(_clear_pending_transaction(ud), table,
                 add_transaction(txs, seq, user_id, c.id, ud.pending.amount, description, now_utc),
                 seq + 1,
                 <<"Gasto registrado correctamente en la categoría " \o c.name \o EXPENSE_SAVED_TIP>>,
                 END, TRUE)
    IN  IF ~ud.pending_transaction
        THEN done(FALSE, "No encontré un monto previo. Usa /gasto para empezar otra vez.", END)
        ELSE IF "amount" \notin ud.pending.keys
        THEN done(TRUE, "No pude recuperar el monto. Usa /gasto para empezar otra vez.", END)
        ELSE IF description = ""
        THEN done(FALSE, "Necesito una descripción válida.",
                  IF has_category /\ ud.pending.category_id # 0 THEN EXPENSE_DESCRIPTION_INPUT
                  ELSE EXPENSE_CATEGORY)
        ELSE IF has_category
        THEN IF chosen = {} \/ \E c \in chosen : c.user_id # user_id
             THEN done(TRUE, "La categoría seleccionada ya no está disponible. Empieza nuevamente con /gasto.", END)
             ELSE { saved(c) : c \in chosen }
        ELSE IF default = {}
        THEN done(FALSE, "No existe una categoría general. Crea una categoría y vuelve a intentarlo.", END)
        ELSE { saved(c) : c \in default }

cancel_transaction(ud, table, txs, seq) ==
    FOut(_clear_pending_transaction(ud), table, txs, seq,
         <<"Registro cancelado. Usa el menú principal para intentarlo nuevamente.">>, END, FALSE)

\* the rows a query with ORDER BY transaction_date DESC LIMIT 5 can return for the user
RecentTransactions(txs, user_id) ==
    LET rows == {txs[i] : i \in {j \in DOMAIN txs : txs[j].user_id = user_id}}
        n == IF Cardinality(rows) < 5 THEN Cardinality(rows) ELSE 5
    IN  { S \in SUBSET rows :
            /\ Cardinality(S) = n
            /\ \A a \in S : \A b \in rows \ S : a.transaction_date >= b.transaction_date }

\* show_recent_transactions (/ultimos): the message and, for each transaction listed, the
\* callback_data of its button
show_recent_transactions(txs, user_id) ==
    { IF listed = {}
      THEN [reply |-> "No encontré transacciones recientes.", buttons |-> {}]
      ELSE [reply |-> "Selecciona una transacción para eliminarla:",
            buttons |-> { [transaction_id |-> t.id, callback_data |-> "del_tx_" \o IntToStr(t.id)]
                          : t \in listed }]
      : listed \in RecentTransactions(txs, user_id) }

\* settings_delete_recent_handler (Ajustes > eliminar recientes)
settings_delete_recent_handler(txs, user_id) ==
    { IF listed = {}
      THEN [reply |-> "No encontré transacciones recientes.", buttons |-> {}]
      ELSE [reply |-> "Selecciona una transacción para eliminarla:",
            buttons |-> { [transaction_id |-> t.id, callback_data |-> delete_transaction(t.id).value]
                          : t \in listed }]
      : listed \in RecentTransactions(txs, user_id) }

\* the sequence txs without the rows of the primary key transaction_id
DeleteRow(txs, transaction_id) == SelectSeq(txs, LAMBDA t : t.id # transaction_id)

\* the deletion that does not look at the owner of the row
delete_transaction_callback_any_owner(data, user_id, ud, table, txs, seq) ==
    LET transaction_id == parse_delete_transaction(data)
    IN  IF transaction_id.kind # "return"
             \/ ~\E i \in DOMAIN txs : txs[i].id = transaction_id.value
        THEN FOut(ud, table, txs, seq, <<"No encontré la transacción, tal vez ya fue eliminada.">>,
                  "", FALSE)
        ELSE FOut(ud, table, DeleteRow(txs, transaction_id.value), seq,
                  <<"Transacción eliminada correctamente.\n\n¿Qué deseas hacer ahora?">>, "", TRUE)

delete_transaction_callback(data, user_id, ud, table, txs, seq) ==
    LET transaction_id == parse_delete_transaction(data)
        transaction == {txs[i] : i \in {j \in DOMAIN txs : transaction_id.kind = "return"
                                                          /\ txs[j].id = transaction_id.value}}
    IN  IF transaction_id.kind # "return"
        THEN FOut(ud, table, txs, seq,
                  <<"No pude interpretar la transacción seleccionada. Usa /ultimos para intentarlo de nuevo.">>,
                  "", FALSE)
        ELSE IF transaction = {} \/ \E t \in transaction : t.user_id # user_id
        THEN FOut(ud, table, txs, seq, <<"No encontré la transacción, tal vez ya fue eliminada.">>,
                  "", FALSE)
        ELSE FOut(ud, table, DeleteRow(txs, transaction_id.value), seq,
                  <<"Transacción eliminada correctamente.\n\n¿Qué deseas hacer ahora?">>, "", TRUE)


start_income(ud, table, txs, seq) ==
    FOut([ud EXCEPT !.pending_transaction = TRUE,
                    !.pending = [NoPending EXCEPT !.keys = {"type"}, !.type = INCOME]],
         table, txs, seq, <<"¿Cuál es el monto?">>, INCOME_AMOUNT, FALSE)

income_amount_received(text, user_id, ud, table, txs, seq) ==
    LET amount == parse_amount(text)
        prompt == _send_category_prompt(table, user_id, INCOME)
    IN  IF amount.kind # "return"
        THEN FOut(ud, table, txs, seq,
                  <<"Monto no válido. Intenta nuevamente con un número positivo.">>,
                  INCOME_AMOUNT, FALSE)
        ELSE FOut(_store_pending_transaction(ud, amount.cents, INCOME), prompt.categories, txs, seq,
                  <<prompt.reply>>, INCOME_CATEGORY, prompt.categories # table)

INCOME_SAVED_TIP ==
    ".\n\n**Tip:** La próxima vez no necesitas comandos. Solo escríbeme 'Recibí 500k' y yo hago el resto."

\* income_category_selected: the set of what it can leave.  The row is added without a
\* look at the category; where the category does not exist the commit passes or raises by
\* whether the database enforces the foreign key; an exception leaves the conversation
\* in its state, and the INSERT that failed has drawn its id from the sequence
income_category_selected(data, user_id, ud, table, txs, seq, now_utc) ==
    LET category_id == parse_category(data)
        category == {c \in table : category_id.kind = "return" /\ c.id = category_id.value}
        done(cleared, reply) ==
            FOut(IF cleared THEN _clear_pending_transaction(ud) ELSE ud, table, txs, seq,
                 <<reply>>, END, FALSE)
        saved ==
            FOut(_clear_pending_transaction(ud), table,
                 add_transaction(txs, seq, user_id, category_id.value, ud.pending.amount, "", now_utc),
                 seq + 1,
                 <<"Ingreso registrado correctamente en la categoría "
                   \o (IF category = {} THEN "seleccionada"
                       ELSE (CHOOSE c \in category : TRUE).name) \o INCOME_SAVED_TIP>>,
                 END, TRUE)
    IN  IF ~ud.pending_transaction
        THEN { done(FALSE, "No pude recuperar la información del monto. Intenta con /ingreso de nuevo.") }
        ELSE IF "amount" \notin ud.pending.keys
        THEN { done(TRUE, "No pude recuperar la información del monto. Intenta con /ingreso de nuevo.") }
        ELSE IF category_id.kind # "return"
        THEN { done(TRUE, "Selección inválida. Usa /ingreso para intentarlo nuevamente.") }
        ELSE IF category = {}
        THEN { saved, FOut(ud, table, txs, seq + 1, <<>>, INCOME_CATEGORY, FALSE) }
        ELSE { saved }

\* income_description_received: the set of what it can leave
income_description_received(text, user_id, ud, table, txs, seq, now_utc) ==
    LET description == Strip(text)
        default == get_default_category(table, user_id, INCOME)
        done(cleared, reply, ret) ==
            { FOut(IF cleared THEN _clear_pending_transaction(ud) ELSE ud, table, txs, seq,
                   <<reply>>, ret, FALSE) }
    IN  IF ~ud.pending_transaction
        THEN done(FALSE, "No encontré un monto previo. Usa /ingreso para empezar otra vez.", END)
        ELSE IF "amount" \notin ud.pending.keys
        THEN done(TRUE, "No pude recuperar el monto. Usa /ingreso para empezar otra vez.", END)
        ELSE IF description = ""
        THEN done(FALSE, "Necesito una descripción válida o elige una categoría.", INCOME_CATEGORY)
        ELSE IF default = {}
        THEN done(FALSE, "No existe una categoría general de ingresos. Crea una categoría y vuelve a intentarlo.", END)
        ELSE { FOut(_clear_pending_transaction(ud), table,
                    add_transaction(txs, seq, user_id, c.id, ud.pending.amount, description, now_utc),
                    seq + 1,
                    <<"Ingreso registrado correctamente en la categoría " \o c.name
                      \o INCOME_SAVED_TIP>>,
                    END, TRUE) : c \in default }


(***************************************************************************)
(* The management of categories (bot/handlers/categories.py): the menu,    *)
(* the lists and the deletion.                                             *)
(***************************************************************************)
CATEGORY_MENU == "CATEGORY_MENU"
CATEGORY_ADD_NAME == "CATEGORY_ADD_NAME"
CATEGORY_RENAME_SELECT == "CATEGORY_RENAME_SELECT"

CATEGORY_MENU_TEXT == "Gestión de categorías. ¿Qué te gustaría hacer?"

\* parse_category_manage: one part, returned as it is
parse_category_manage(callback_data) ==
    LET parts == _parse_callback(callback_data, CallbackType.CATEGORY_MANAGE)
    IN  IF parts.kind # "return" THEN ValueError
        ELSE IF Len(parts.value) # 1 THEN ValueError
        ELSE Returned(parts.value[1])

\* /categorias or the button "Categorías" of the settings
category_management_menu(ud, table, txs, seq) ==
    FOut(ud, table, txs, seq, <<CATEGORY_MENU_TEXT>>, CATEGORY_MENU, FALSE)

\* category_menu_selection: a press on "Agregar", "Eliminar" or "Renombrar".  The list
\* for the deletion is sent from inside the test for a last incomplete row of buttons,
\* that is when the number of categories is odd
category_menu_selection(data, user_id, ud, table, txs, seq) ==
    LET action == parse_category_manage(data)
        found == fetch_user_categories(table, user_id)
        out(replies, ret) == FOut(ud, table, txs, seq, replies, ret, FALSE)
    IN  IF action.kind # "return"
        THEN out(<<"Error al procesar la selección. Intenta nuevamente con /categorias.">>, END)
        ELSE IF action.value = "add"
        THEN FOut([ud EXCEPT !.category_operation = TRUE], table, txs, seq,
                  <<"¿Cómo se llama la nueva categoría?">>, CATEGORY_ADD_NAME, FALSE)
        ELSE IF action.value = "delete"
        THEN IF found = {}
             THEN out(<<"No encontré categorías registradas. Empieza creando una con el botón Agregar.",
                        CATEGORY_MENU_TEXT>>, CATEGORY_MENU)
             ELSE IF Cardinality(found) % 2 = 1
             THEN out(<<"Selecciona la categoría que deseas eliminar:">>, CATEGORY_MENU)
             ELSE out(<<>>, CATEGORY_MENU)
        ELSE IF action.value = "rename"
        THEN IF found = {}
             THEN out(<<"No encontré categorías para renombrar. Empieza creando una con el botón Agregar.",
                        CATEGORY_MENU_TEXT>>, CATEGORY_MENU)
             ELSE out(<<"Selecciona la categoría que quieres renombrar:">>, CATEGORY_RENAME_SELECT)
        ELSE out(<<"Acción no reconocida. Intenta nuevamente con /categorias.">>, END)

\* category_delete_selected: session.delete(category) also deletes, by the cascade of the
\* relationships of Category, the transactions and the budgets of the category
category_delete_selected(data, user_id, ud, table, txs, seq) ==
    LET category_id == parse_delete_category(data)
        category == {c \in table : category_id.kind = "return" /\ c.id = category_id.value}
    IN  IF category_id.kind # "return"
        THEN FOut(ud, table, txs, seq,
                  <<"Selección inválida. Usa /categorias para intentarlo de nuevo.">>, END, FALSE)
        ELSE IF category = {} \/ \E c \in category : c.user_id # user_id
        THEN FOut(ud, table, txs, seq,
                  <<"No pude encontrar esa categoría. Intenta nuevamente.", CATEGORY_MENU_TEXT>>,
                  CATEGORY_MENU, FALSE)
        ELSE FOut(ud, table \ category,
                  SelectSeq(txs, LAMBDA t : t.category_id # category_id.value), seq,
                  <<"Categoría eliminada exitosamente.", CATEGORY_MENU_TEXT>>,
                  CATEGORY_MENU, TRUE)

\* /cancel in the management of categories
cancel_category_management(ud, table, txs, seq) ==
    FOut([ud EXCEPT !.category_operation = FALSE], table, txs, seq,
         <<"Gestión de categorías cancelada.">>, END, FALSE)


(***************************************************************************)
(* Budgets and goals (bot/handlers/budgets.py, bot/handlers/goals.py).  A  *)
(* handler returns the user_data, the tables budgets and goals, its        *)
(* replies, the state it returns and whether it committed.                 *)
(***************************************************************************)
POut(ud, bs, gs, replies, ret, committed) ==
    [user_data |-> ud, budgets |-> bs, goals |-> gs, replies |-> replies, ret |-> ret,
     committed |-> committed]

\* date(now.year, now.month, 1) and the last day of that month
MonthStart(now_utc) ==
    LET c == CivilFromDays(UtcDate(now_utc)) IN DaysFromCivil(c[1], c[2], 1)
MonthEnd(now_utc) ==
    LET c == CivilFromDays(UtcDate(now_utc)) IN DaysFromCivil(c[1], c[2], DaysInMonth(c[1], c[2]))

start_budget(user_id, ud, table, bs, gs) ==
    IF {c \in table : c.user_id = user_id /\ c.type = EXPENSE} = {}
    THEN POut(ud, bs, gs,
              <<"No encontré categorías de gasto. Crea una desde el menú de categorías antes de configurar un presupuesto.">>,
              END, FALSE)
    ELSE POut(ud, bs, gs, <<"¿Para qué categoría quieres un presupuesto?">>,
              BUDGET_CATEGORY_SELECT, FALSE)

budget_category_selected(data, user_id, ud, table, bs, gs) ==
    LET category_id == parse_budget_category(data)
        category == {c \in table : category_id.kind = "return" /\ c.id = category_id.value}
    IN  IF category_id.kind # "return"
        THEN POut(ud, bs, gs,
                  <<"Selección inválida. Usa la opción de presupuestos para intentarlo nuevamente.">>,
                  END, FALSE)
        ELSE IF category = {} \/ \E c \in category : c.user_id # user_id \/ c.type # EXPENSE
        THEN POut(ud, bs, gs,
                  <<"No pude identificar la categoría seleccionada. Intenta nuevamente desde Presupuestos.">>,
                  END, FALSE)
        ELSE POut([ud EXCEPT !.budget_flow = TRUE,
                             !.budget_flow_data = [category_id |-> category_id.value]],
                  bs, gs, <<"¿Cuál es el monto mensual?">>, BUDGET_AMOUNT_INPUT, FALSE)

\* the amount step that ends the conversation on an amount it rejects
budget_amount_received_ending(text, user_id, ud, table, bs, gs, now_utc) ==
    { POut(ud, bs, gs, <<"Monto inválido. Ingresa un número positivo.">>, END, FALSE) }

budget_amount_received(text, user_id, ud, table, bs, gs, now_utc) ==
    LET amount == parse_amount(text)
        category_id == ud.budget_flow_data.category_id
        budget == {b \in bs : b.user_id = user_id /\ b.category_id = category_id}
        category == {c \in table : c.id = category_id}
        category_name == IF category = {} THEN "Categoría" ELSE (CHOOSE c \in category : TRUE).name
        saved(b) == [b EXCEPT !.amount = amount.cents, !.start_date = MonthStart(now_utc),
                              !.end_date = MonthEnd(now_utc)]
        created == [id |-> MaxId(bs) + 1, user_id |-> user_id, category_id |-> category_id,
                    amount |-> amount.cents, start_date |-> MonthStart(now_utc),
                    end_date |-> MonthEnd(now_utc)]
        reply == "Presupuesto guardado correctamente.\n\nPresupuesto mensual para "
                 \o category_name \o ": " \o format_currency(amount.cents)
                 \o ".\n\n¿Qué deseas hacer ahora?"
        cleared == [ud EXCEPT !.budget_flow = FALSE, !.budget_flow_data = NoBudgetFlow]
    IN  IF ~ud.budget_flow
        THEN { POut(ud, bs, gs,
                    <<"Perdí la categoría seleccionada. Empieza de nuevo desde el menú de Presupuestos.">>,
                    END, FALSE) }
        ELSE IF amount.kind # "return"
        THEN { POut(ud, bs, gs, <<"Monto inválido. Ingresa un número positivo.">>,
                    BUDGET_AMOUNT_INPUT, FALSE) }
        ELSE IF budget = {}
        THEN { POut(cleared, bs \cup {created}, gs, <<reply>>, END, TRUE) }
        ELSE { POut(cleared, (bs \ {b}) \cup {saved(b)}, gs, <<reply>>, END, TRUE) : b \in budget }

cancel_budget_flow(ud, bs, gs) ==
    POut([ud EXCEPT !.budget_flow = FALSE, !.budget_flow_data = NoBudgetFlow], bs, gs,
         <<"Gestión de presupuesto cancelada.">>, END, FALSE)

start_goal_creation(ud, bs, gs) ==
    POut(ud, bs, gs, <<"¿Cuál es el nombre de la meta?">>, GOAL_NAME_INPUT, FALSE)

goal_name_received(text, ud, bs, gs) ==
    LET name == Strip(text)
    IN  IF name = ""
        THEN POut(ud, bs, gs, <<"Necesito un nombre válido para la meta.">>, GOAL_NAME_INPUT, FALSE)
        ELSE POut([ud EXCEPT !.goal_creation = [present |-> TRUE, name |-> name]], bs, gs,
                  <<"¿Cuál es el monto objetivo?">>, GOAL_TARGET_INPUT, FALSE)

goal_target_received(text, user_id, ud, bs, gs) ==
    LET target_amount == parse_amount(text)
        name == ud.goal_creation.name
        goal == {g \in gs : g.user_id = user_id /\ g.name = name}
        created == [id |-> MaxId(gs) + 1, user_id |-> user_id, name |-> name,
                    target_amount |-> target_amount.cents, current_amount |-> 0]
        reply == "Meta '" \o name \o "' configurada con un objetivo de "
                 \o format_currency(target_amount.cents) \o "."
        cleared == [ud EXCEPT !.goal_creation = NoGoalCreation]
    IN  IF ~ud.goal_creation.present
        THEN { POut(ud, bs, gs,
                    <<"Perdí el nombre de la meta. Inicia otra vez desde el menú de Metas.">>,
                    END, FALSE) }
        ELSE IF target_amount.kind # "return"
        THEN { POut(ud, bs, gs, <<"Monto inválido. Ingresa un número positivo.">>,
                    GOAL_TARGET_INPUT, FALSE) }
        ELSE IF goal = {}
        THEN { POut(cleared, bs, gs \cup {created}, <<reply>>, END, TRUE) }
        ELSE { POut(cleared, bs,
                    (gs \ {g}) \cup {[g EXCEPT !.target_amount = target_amount.cents]},
                    <<reply>>, END, TRUE) : g \in goal }

start_goal_contribution(user_id, ud, bs, gs) ==
    IF {g \in gs : g.user_id = user_id} = {}
    THEN POut(ud, bs, gs,
              <<"No tienes metas registradas. Usa la opción 'Crear meta' para agregar una.">>,
              END, FALSE)
    ELSE POut(ud, bs, gs, <<"Selecciona la meta a la que quieres aportar:">>,
              GOAL_CONTRIBUTION_SELECT, FALSE)

goal_contribution_selected(data, user_id, ud, bs, gs) ==
    LET goal_id == parse_goal_contribution(data)
        goal == {g \in gs : goal_id.kind = "return" /\ g.id = goal_id.value}
    IN  IF goal_id.kind # "return"
        THEN POut(ud, bs, gs,
                  <<"Selección inválida. Usa la opción 'Aportar a meta' para intentarlo nuevamente.">>,
                  END, FALSE)
        ELSE IF goal = {} \/ \E g \in goal : g.user_id # user_id
        THEN POut(ud, bs, gs,
                  <<"No pude encontrar la meta seleccionada. Intenta de nuevo desde el menú de Metas.">>,
                  END, FALSE)
        ELSE LET g == CHOOSE g \in goal : TRUE
             IN  POut([ud EXCEPT !.goal_contribution =
                                     [present |-> TRUE, goal_id |-> g.id, goal_name |-> g.name]],
                      bs, gs, <<"Meta: " \o g.name \o "\n¿Cuánto deseas aportar?">>,
                      GOAL_CONTRIBUTION_AMOUNT, FALSE)

\* the reply leaves out the percentage of progress
goal_contribution_amount_received(text, user_id, ud, bs, gs) ==
    LET contribution == parse_amount(text)
        goal == {g \in gs : g.id = ud.goal_contribution.goal_id}
        cleared == [ud EXCEPT !.goal_contribution = NoGoalContribution]
    IN  IF ~ud.goal_contribution.present
        THEN POut(ud, bs, gs,
                  <<"Perdí la meta seleccionada. Empieza nuevamente desde el menú de Metas.">>,
                  END, FALSE)
        ELSE IF contribution.kind # "return"
        THEN POut(ud, bs, gs, <<"Monto inválido. Ingresa un número positivo.">>,
                  GOAL_CONTRIBUTION_AMOUNT, FALSE)
        ELSE IF goal = {} \/ \E g \in goal : g.user_id # user_id
        THEN POut(cleared, bs, gs, <<"No pude encontrar la meta. Empieza nuevamente desde Metas.">>,
                  END, FALSE)
        ELSE LET g == CHOOSE g \in goal : TRUE
                 after == [g EXCEPT !.current_amount = @ + contribution.cents]
             IN  POut(cleared, bs, (gs \ {g}) \cup {after},
                      <<"Aporte registrado para '" \o g.name \o "'.\nAcumulado: "
                        \o format_currency(after.current_amount) \o " / "
                        \o format_currency(after.target_amount) \o ".">>,
                      END, TRUE)


(***************************************************************************)
(* Onboarding: the choice of categories (bot/handlers/onboarding.py).      *)
(* A handler is given the user_data ud of its user and returns what it     *)
(* leaves: the user_data, its replies and alerts, the state it returns.    *)
(***************************************************************************)
ONBOARDING_CUSTOM_INPUT == "ONBOARDING_CUSTOM_INPUT"
ONBOARDING_COMPLETE == "ONBOARDING_COMPLETE"

LOCKED_DEFAULTS == {"General", "General Ingreso"}

ONBOARDING_LOCKED_ALERT == "Esta categoría es obligatoria para el bot."
ONBOARDING_EMPTY_ALERT == "Selecciona al menos una categoría antes de continuar."
ONBOARDING_PARSE_ERROR == "Error al procesar la selección. Intenta nuevamente."
ONBOARDING_SELECTED == "Categorías seleccionadas. Ajusta las que necesites y presiona continuar."
ONBOARDING_ASK_CUSTOM ==
    "¿Quieres añadir alguna categoría personalizada ahora? (ej: 'Mascotas', 'Gimnasio')\n"
    \o "Puedes escribir una lista separada por comas o escribe 'no' para omitir."
ONBOARDING_LOST == "Algo salió mal con el proceso de onboarding. Intenta nuevamente con /start."

\* no entry "onboarding" in context.user_data
NoData == [present |-> FALSE, selected_defaults |-> {}, custom_categories |-> <<>>]

\* CallbackManager.onboarding(action, *args) and parse_onboarding
onboarding(action, args) == _build_callback(CallbackType.ONBOARDING, <<action>> \o args)
parse_onboarding(callback_data) == _parse_callback(callback_data, CallbackType.ONBOARDING)

\* context.user_data.setdefault("onboarding", {all the default names, no custom category})
setdefault_onboarding(ud) ==
    IF ud.onboarding.present THEN ud
    ELSE [ud EXCEPT !.onboarding = [present |-> TRUE,
                                    selected_defaults |-> ONBOARDING_CATEGORY_NAMES,
                                    custom_categories |-> <<>>]]

OOut(ud, replies, ret) == [user_data |-> ud, replies |-> replies, ret |-> ret]

\* onboarding_demo_handler: the buttons "Probar Demo" and "Configurar"
onboarding_demo_handler(data, ud) ==
    LET parts == parse_onboarding(data)
        action == IF parts.kind = "return" /\ Len(parts.value) > 0 THEN parts.value[1] ELSE ""
    IN  IF parts.kind # "return" THEN OOut(ud, <<ONBOARDING_PARSE_ERROR>>, ONBOARDING_DEMO)
        ELSE IF action = "skip_demo"
        THEN OOut(setdefault_onboarding(ud), <<DEMO_CATEGORIES_PROMPT>>, ONBOARDING_CATEGORY_CHOICES)
        ELSE OOut(ud, <<>>, ONBOARDING_DEMO)

\* onboarding_category_choice whose toggle only ever adds the category
onboarding_category_choice_adding(data, ud) ==
    LET d == setdefault_onboarding(ud)
        parts == parse_onboarding(data)
    IN  IF parts.kind = "return" /\ Len(parts.value) > 1 /\ parts.value[1] = "toggle"
        THEN OOut([d EXCEPT !.onboarding.selected_defaults =
                       @ \cup {Join(Tail(parts.value), ":")}],
                  <<ONBOARDING_SELECTED>>, ONBOARDING_CATEGORY_CHOICES)
        ELSE OOut(d, <<>>, ONBOARDING_CATEGORY_CHOICES)

\* onboarding_category_choice without the test for the locked categories
onboarding_category_choice_unlocked(data, ud) ==
    LET d == setdefault_onboarding(ud)
        selected == d.onboarding.selected_defaults
        parts == parse_onboarding(data)
        category_name == Join(Tail(parts.value), ":")
    IN  IF parts.kind = "return" /\ Len(parts.value) > 1 /\ parts.value[1] = "toggle"
        THEN OOut([d EXCEPT !.onboarding.selected_defaults =
                       IF category_name \in selected THEN selected \ {category_name}
                       ELSE selected \cup {category_name}],
                  <<ONBOARDING_SELECTED>>, ONBOARDING_CATEGORY_CHOICES)
        ELSE OOut(d, <<>>, ONBOARDING_CATEGORY_CHOICES)

\* onboarding_category_choice: a press on a category of the keyboard or on "Continuar"
onboarding_category_choice(data, ud) ==
    LET d == setdefault_onboarding(ud)
        selected == d.onboarding.selected_defaults
        parts == parse_onboarding(data)
        action_parts == parts.value
        action == IF Len(action_parts) > 0 THEN action_parts[1] ELSE ""
    IN  IF parts.kind # "return"
        THEN OOut(d, <<ONBOARDING_PARSE_ERROR>>, ONBOARDING_CATEGORY_CHOICES)
        ELSE IF action = "start"
        THEN OOut(d, <<DEMO_CATEGORIES_PROMPT>>, ONBOARDING_CATEGORY_CHOICES)
        ELSE IF action = "toggle" /\ Len(action_parts) > 1
        THEN LET category_name == Join(Tail(action_parts), ":")
                 toggled == IF category_name \in LOCKED_DEFAULTS THEN selected
                            ELSE IF category_name \in selected THEN selected \ {category_name}
                            ELSE selected \cup {category_name}
             IN  OOut([d EXCEPT !.onboarding.selected_defaults = toggled],
                      (IF category_name \in LOCKED_DEFAULTS THEN <<ONBOARDING_LOCKED_ALERT>>
                       ELSE <<>>) \o <<ONBOARDING_SELECTED>>,
                      ONBOARDING_CATEGORY_CHOICES)
        ELSE IF action = "next"
        THEN IF selected = {}
             THEN OOut(d, <<ONBOARDING_EMPTY_ALERT>>, ONBOARDING_CATEGORY_CHOICES)
             ELSE OOut(d, <<ONBOARDING_ASK_CUSTOM>>, ONBOARDING_CUSTOM_INPUT)
        ELSE OOut(d, <<>>, ONBOARDING_CATEGORY_CHOICES)

\* _parse_custom_categories for a message without line breaks
_parse_custom_categories(message) ==
    IF message = "" THEN <<>>
    ELSE IF Lower(Strip(message)) \in {"no", "ninguna"} THEN <<>>
    ELSE LET raw_items == Split(message, ",")
             stripped == [i \in 1..Len(raw_items) |-> Strip(raw_items[i])]
         IN  SelectSeq(stripped, LAMBDA item : item # "")

\* onboarding_custom_categories: the text typed where the custom categories are asked for
onboarding_custom_categories(text, ud) ==
    IF ~ud.onboarding.present THEN OOut(ud, <<ONBOARDING_LOST>>, END)
    ELSE LET cats == _parse_custom_categories(text)
         IN  OOut([ud EXCEPT !.onboarding.custom_categories = cats],
                  <<IF Len(cats) > 0
                    THEN "Perfecto, añadiré estas categorías personalizadas:\n- "
                         \o Join(cats, "\n- ")
                    ELSE "Sin categorías personalizadas por ahora.",
                    "Cuando estés listo, presiona finalizar para guardar todo.">>,
                  ONBOARDING_COMPLETE)

\* the tables ensure_categories_exist(session, user_id, category_names, category_type=...,
\* is_default=...) can leave: the new rows take the next primary keys in the order a set
\* of str is iterated in, which differs from run to run
ensure_categories_exist(table, user_id, category_names, category_type, is_default) ==
    LET normalized_names == {Strip(category_names[i]) : i \in DOMAIN category_names} \ {""}
        existing == {r.name : r \in {c \in table : c.user_id = user_id /\ c.type = category_type}}
        to_create == normalized_names \ existing
        orders == {f \in [to_create -> 1..Cardinality(to_create)] :
                      \A a, b \in to_create : a # b => f[a] # f[b]}
        last_id == MaxId(table)
    IN  { table \cup { [id |-> last_id + f[name], user_id |-> user_id, name |-> name,
                        type |-> category_type, is_default |-> is_default] : name \in to_create }
          : f \in orders }

\* _ensure_user followed by user.is_onboarded = value
ensure_user_onboarded(rows, telegram_id, value) ==
    {r \in rows : r.telegram_id # telegram_id}
    \cup {[telegram_id |-> telegram_id, is_onboarded |-> value]}

\* onboarding_finish: the button "Finalizar" or /cancel; the set of what it can leave
onboarding_finish(user_id, ud, rows, table) ==
    LET selected_defaults == IF ud.onboarding.present THEN ud.onboarding.selected_defaults
                             ELSE ONBOARDING_CATEGORY_NAMES
        custom_categories == IF ud.onboarding.present THEN ud.onboarding.custom_categories
                             ELSE <<>>
        selected_with_locked == selected_defaults \cup LOCKED_DEFAULTS
        with_defaults == create_default_categories(table, user_id, selected_with_locked)
    IN  { [user_data |-> [ud EXCEPT !.onboarding = NoData],
           users |-> ensure_user_onboarded(rows, user_id, TRUE),
           categories |-> after,
           replies |-> <<"¡Todo listo!", "Menú principal:">>,
           ret |-> END]
          : after \in ensure_categories_exist(with_defaults, user_id, custom_categories,
                                              EXPENSE, FALSE) }


(***************************************************************************)
(* State                                                                   *)
(***************************************************************************)
VARIABLES
    api_key,       \* whether GEMINI_API_KEY is set in the environment of the process
    users,         \* table users: rows [telegram_id, is_onboarded]
    categories,    \* table categories
    transactions,  \* table transactions, in insertion order
    conv,          \* state of the onboarding conversation of each user
    user_data,     \* context.user_data of each user
    upd,           \* what the handler of the update in progress did
    aq,            \* the last direct call of AnalyticsService.answer_question
    px,            \* the last direct call of AIService.parse_transaction
    fn,            \* the last direct call of a helper function: name, arguments, result
    conversations, \* state of the other conversations of each user, one per ConversationHandler
    tx_seq,        \* the last value drawn from the sequence behind transactions.id; where
                   \* no row is ever deleted it stands at the length of the table
    budgets,       \* table budgets
    goals          \* table goals

vars == <<api_key, users, categories, transactions, conv, user_data, upd, aq, px, fn,
          conversations, tx_seq, budgets, goals>>

\* the largest number of Transaction rows the model lets the table hold
MaxTx == 1

\* an empty context.user_data
EmptyUserData ==
    [pending_transaction |-> FALSE, pending |-> NoPending,
     budget_flow |-> FALSE, budget_flow_data |-> NoBudgetFlow,
     goal_creation |-> NoGoalCreation, goal_contribution |-> NoGoalContribution,
     onboarding |-> NoData, category_operation |-> FALSE]

\* no conversation of the user is open
NoConversations ==
    [expense |-> END, income |-> END, category |-> END, budget |-> END, goal_creation |-> END,
     goal_contribution |-> END]

Upd(handler, user_id, text, intent, cls_kind, o, tx_before) ==
    [handler |-> handler, user_id |-> user_id, text |-> text, intent |-> intent,
     cls_kind |-> cls_kind, replies |-> o.replies, raised |-> o.raised, failed |-> o.failed,
     px |-> o.px, aq |-> o.aq, ret |-> o.ret, tx_before |-> tx_before, committed |-> FALSE]

NoUpd == Upd("", 0, "", "", "", HOut({}, <<>>, <<>>, "", {}, NoPx, NoAq, ""), 0)

NoAqCall == [called |-> FALSE, question |-> "", user_id |-> 0,
             out |-> Out("", "", <<>>, NoResp, "", NoDb, NoResp)]
NoPxCall == [called |-> FALSE, text |-> "", has_image |-> FALSE, user_id |-> 0, categories |-> {},
             now |-> 0, out |-> PxOut("", "", NoResult, NoExtract)]

NoFnCall == [name |-> ""]

Init ==
    /\ api_key \in BOOLEAN
    /\ users = {}
    /\ categories = {}
    /\ transactions = <<>>
    /\ conv = [u \in UserIds |-> END]
    /\ user_data = [u \in UserIds |-> EmptyUserData]
    /\ upd = NoUpd
    /\ aq = NoAqCall
    /\ px = NoPxCall
    /\ fn = NoFnCall
    /\ conversations = [u \in UserIds |-> NoConversations]
    /\ tx_seq = 0
    /\ budgets = {}
    /\ goals = {}

(***************************************************************************)
(* Handlers, in the order build_application registers them                 *)
(***************************************************************************)
\* the group -1 handler runs first for every update: a new update begins
DebugUpdate ==
    /\ upd.handler # ""
    /\ upd' = NoUpd
    /\ UNCHANGED <<api_key, users, categories, transactions, conv, user_data, aq, px, fn,
                 conversations, tx_seq, budgets, goals>>

\* /start
OnboardingStart(u) ==
    /\ upd.handler = ""
    /\ LET row == {r \in users : r.telegram_id = u}
           is_onboarded == \E r \in row : r.is_onboarded
       IN  /\ users' = IF row = {} THEN users \cup {[telegram_id |-> u, is_onboarded |-> FALSE]}
                       ELSE users
           /\ IF is_onboarded
              THEN /\ conv' = [conv EXCEPT ![u] = END]
                   /\ UNCHANGED user_data
              ELSE /\ conv' = [conv EXCEPT ![u] = ONBOARDING_DEMO]
                   /\ user_data' = [user_data EXCEPT ![u].onboarding =
                                       [present |-> TRUE,
                                        selected_defaults |-> ONBOARDING_CATEGORY_NAMES,
                                        custom_categories |-> <<>>]]
           /\ upd' = Upd("onboarding_start", u, "", "", "",
                         HOut(categories, transactions, <<>>, "", {}, NoPx, NoAq,
                              IF is_onboarded THEN END ELSE ONBOARDING_DEMO),
                         Len(transactions))
    /\ UNCHANGED <<api_key, categories, transactions, aq, px, fn,
                 conversations, tx_seq, budgets, goals>>

\* a text or a voice note while the onboarding conversation is in ONBOARDING_DEMO
OnboardingDemoProcess(u) ==
    /\ upd.handler = ""
    /\ conv[u] = ONBOARDING_DEMO
    /\ \E is_voice \in BOOLEAN :
       \E text \in (IF is_voice THEN {""} ELSE DemoTexts) :
       \E o \in onboarding_demo_process(text, is_voice, u, categories, transactions, api_key) :
          /\ Len(o.transactions) <= MaxTx
          /\ categories' = o.categories
          /\ transactions' = o.transactions
          /\ tx_seq' = Len(o.transactions)
          /\ conv' = [conv EXCEPT ![u] = o.ret]
          /\ user_data' = IF o.ret = ONBOARDING_CATEGORY_CHOICES /\ ~user_data[u].onboarding.present
                          THEN [user_data EXCEPT ![u].onboarding =
                                   [present |-> TRUE,
                                    selected_defaults |-> ONBOARDING_CATEGORY_NAMES,
                                    custom_categories |-> <<>>]]
                          ELSE user_data
          /\ upd' = Upd("onboarding_demo_process", u, text, "", "", o, Len(transactions))
    /\ UNCHANGED <<api_key, users, aq, px, fn,
                 conversations, budgets, goals>>

\* a photo
HandlePhotoMessage(u) ==
    /\ upd.handler = ""
    /\ \E o \in handle_photo_message(u, user_data[u], categories, transactions, api_key) :
          /\ Len(o.transactions) <= MaxTx
          /\ categories' = o.categories
          /\ transactions' = o.transactions
          /\ tx_seq' = Len(o.transactions)
          /\ upd' = Upd("handle_photo_message", u, "", "", "", o, Len(transactions))
    /\ UNCHANGED <<api_key, users, conv, user_data, aq, px, fn,
                 conversations, budgets, goals>>

\* a text that no conversation takes: handle_text_message strips it and calls the router
HandleTextMessage(u) ==
    /\ upd.handler = ""
    /\ conv[u] # ONBOARDING_DEMO
    /\ \E message_text \in Messages :
       LET text == Strip(message_text) IN
       \E r \in process_user_text_input(text, u, user_data[u], categories, transactions, api_key) :
          /\ Len(r.out.transactions) <= MaxTx
          /\ categories' = r.out.categories
          /\ transactions' = r.out.transactions
          /\ tx_seq' = Len(r.out.transactions)
          /\ upd' = Upd("handle_text_message", u, text, r.intent, r.cls.kind, r.out,
                        Len(transactions))
    /\ UNCHANGED <<api_key, users, conv, user_data, aq, px, fn,
                 conversations, budgets, goals>>

Next ==
    \/ DebugUpdate
    \/ \E u \in UserIds : OnboardingStart(u)
    \/ \E u \in UserIds : OnboardingDemoProcess(u)
    \/ \E u \in UserIds : HandlePhotoMessage(u)
    \/ \E u \in UserIds : HandleTextMessage(u)

Spec == Init /\ [][Next]_vars

(***************************************************************************)
(* The analytics service on its own: answer_question applied to every     *)
(* sample question, for every answer of the environment.                   *)
(***************************************************************************)
AnswerQuestion ==
    /\ api_key
    /\ \E q \in Questions : \E u \in UserIds : \E o \in answer_question_table[q, u] :
          aq' = [called |-> TRUE, question |-> q, user_id |-> u, out |-> o]
    /\ UNCHANGED <<api_key, users, categories, transactions, conv, user_data, upd, px, fn,
                 conversations, tx_seq, budgets, goals>>

NextAnalytics == AnswerQuestion

SpecAnalytics == Init /\ [][NextAnalytics]_vars

(***************************************************************************)
(* The extraction service on its own: parse_transaction applied to the    *)
(* categories of a user, for every answer of the environment.              *)
(***************************************************************************)
ParseTransaction ==
    /\ api_key
    /\ \E table \in TableSamples : \E u \in UserIds : \E now_utc \in NowSamples :
       \E text \in {"", "Gaste 20k en almuerzo ayer"} : \E has_image \in BOOLEAN :
       \E o \in parse_transaction_table[text, fetch_user_categories(table, u), has_image, now_utc] :
          px' = [called |-> TRUE, text |-> text, has_image |-> has_image, user_id |-> u,
                 categories |-> fetch_user_categories(table, u), now |-> now_utc, out |-> o]
    /\ UNCHANGED <<api_key, users, categories, transactions, conv, user_data, upd, aq, fn,
                 conversations, tx_seq, budgets, goals>>

NextExtraction == ParseTransaction

SpecExtraction == Init /\ [][NextExtraction]_vars


(***************************************************************************)
(* The database session of a registration.  _handle_register and           *)
(* handle_photo_message run create_default_categories, fetch_user_categories,*)
(* parse_transaction and the INSERT inside one "with SessionLocal() as      *)
(* session" block; the session is made with autocommit=False, so the SELECT *)
(* of fetch_user_categories begins a transaction that lasts until the next *)
(* commit or the end of the block.                                         *)
(***************************************************************************)
EV_SESSION_OPEN  == "SessionLocal().__enter__"
EV_SELECT        == "fetch_user_categories"
EV_PARSE         == "parse_transaction"
EV_COMMIT        == "session.commit"
EV_SESSION_CLOSE == "SessionLocal().__exit__"

\* the order of the session events of one registration: px_called when the handler came
\* to call the provider, committed when it persisted the transaction
registration_session_trace(px_called, committed) ==
    <<EV_SESSION_OPEN, EV_SELECT>>
    \o (IF px_called THEN <<EV_PARSE>> ELSE <<>>)
    \o (IF committed THEN <<EV_COMMIT>> ELSE <<>>)
    \o <<EV_SESSION_CLOSE>>

(***************************************************************************)
(* The query branch on its own: _handle_query run on a text the router     *)
(* classified as a query, with the call of answer_question it makes.       *)
(***************************************************************************)
HandleQuery ==
    /\ \E text \in Questions : \E u \in UserIds :
         IF ~api_key
         THEN /\ upd' = Upd("_handle_query", u, text, "query", "return",
                            query_no_service(categories, transactions), Len(transactions))
              /\ aq' = NoAqCall
         ELSE \E o \in answer_question_table[text, u] :
              /\ aq' = [called |-> TRUE, question |-> text, user_id |-> u, out |-> o]
              /\ upd' = Upd("_handle_query", u, text, "query", "return",
                            query_after_answer(o, categories, transactions), Len(transactions))
    /\ UNCHANGED <<api_key, users, categories, transactions, conv, user_data, px, fn,
                 conversations, tx_seq, budgets, goals>>

NextQuery == HandleQuery

SpecQuery == Init /\ [][NextQuery]_vars


(***************************************************************************)
(* The router next to the structured flows that set and clear the flags    *)
(* it looks at.  Conversations are keyed by chat and user and user_data by *)
(* user alone, so a text can reach handle_text_message in one chat while a *)
(* flow of the same user is open in another.  The handlers of the flows     *)
(* follow, each with the state of its ConversationHandler.                 *)
(***************************************************************************)

\* what a handler of the manual flows did
FlowUpd(handler, user_id, text, o) ==
    [Upd(handler, user_id, text, "", "",
         HOut(o.categories, o.transactions, o.replies, "", {}, NoPx, NoAq, o.ret),
         Len(transactions)) EXCEPT !.committed = o.committed]

\* the largest value the model lets the sequence behind transactions.id reach
MaxTxId == 2

\* the handler leaves o; conversation names the ConversationHandler it belongs to, ""
\* for a handler registered on its own
ApplyFlow(u, conversation, handler, text, o) ==
    /\ Len(o.transactions) <= MaxTx
    /\ o.tx_seq <= MaxTxId
    /\ user_data' = [user_data EXCEPT ![u] = o.user_data]
    /\ categories' = o.categories
    /\ transactions' = o.transactions
    /\ tx_seq' = o.tx_seq
    /\ conversations' = IF conversation = "" THEN conversations
                        ELSE [conversations EXCEPT ![u][conversation] = o.ret]
    /\ upd' = FlowUpd(handler, u, text, o)
    /\ UNCHANGED <<api_key, users, conv, aq, px, fn, budgets, goals>>

\* the texts of the main menu buttons (without their emoji)
MainMenuButtons ==
    [Dashboard |-> "dashboard", Reporte |-> "monthly_report", Metas |-> "goals_menu",
     Ajustes |-> "settings_menu"]

\* the handler that takes a text that is no command and no main menu button, by the order
\* of registration: the conversations whose state has a text handler, then the router
text_handler(onboarding_state, cs) ==
    IF onboarding_state \in {ONBOARDING_DEMO, ONBOARDING_CUSTOM_INPUT} THEN "onboarding"
    ELSE IF cs.expense = EXPENSE_AMOUNT THEN "expense_amount_received"
    ELSE IF cs.expense \in {EXPENSE_CATEGORY, EXPENSE_DESCRIPTION_INPUT}
    THEN "expense_description_received"
    ELSE IF cs.income = INCOME_AMOUNT THEN "income_amount_received"
    ELSE IF cs.income = INCOME_CATEGORY THEN "income_description_received"
    ELSE IF cs.category = CATEGORY_ADD_NAME THEN "category_add_name_received"
    ELSE IF cs.budget = BUDGET_AMOUNT_INPUT THEN "budget_amount_received"
    ELSE IF cs.goal_creation = GOAL_NAME_INPUT THEN "goal_name_received"
    ELSE IF cs.goal_creation = GOAL_TARGET_INPUT THEN "goal_target_received"
    ELSE IF cs.goal_contribution = GOAL_CONTRIBUTION_AMOUNT
    THEN "goal_contribution_amount_received"
    ELSE "handle_text_message"

\* the handler that takes a press on a button with the callback_data data, by the order
\* of registration and the patterns; "" when no handler matches
callback_handler(data, cs) ==
    IF cs.expense = EXPENSE_CATEGORY /\ MatchesIdPattern(data, CallbackType.CATEGORY)
    THEN "expense_category_selected"
    ELSE IF cs.expense = EXPENSE_DESCRIPTION_DECISION /\ data \in {"ed:yes", "ed:no"}
    THEN "expense_description_decision"
    ELSE IF cs.income = INCOME_CATEGORY /\ MatchesIdPattern(data, CallbackType.CATEGORY)
    THEN "income_category_selected"
    ELSE IF cs.category = END /\ data = "s:categories" THEN "category_management_menu"
    ELSE IF cs.category = CATEGORY_MENU /\ StartsWith(data, "cm:") THEN "category_menu_selection"
    ELSE IF cs.category \in {CATEGORY_MENU, CATEGORY_RENAME_SELECT}
            /\ MatchesIdPattern(data, CallbackType.DELETE_CATEGORY)
    THEN "category_delete_selected"
    ELSE IF cs.budget = END /\ data = "b:create" THEN "start_budget"
    ELSE IF cs.budget = BUDGET_CATEGORY_SELECT /\ MatchesIdPattern(data, CallbackType.BUDGET_CAT)
    THEN "budget_category_selected"
    ELSE IF cs.goal_creation = END /\ data = "g:create" THEN "start_goal_creation"
    ELSE IF cs.goal_contribution = END /\ data = "g:contribute" THEN "start_goal_contribution"
    ELSE IF cs.goal_contribution = GOAL_CONTRIBUTION_SELECT
            /\ MatchesIdPattern(data, CallbackType.GOAL_CONTRIB)
    THEN "goal_contribution_selected"
    ELSE IF MatchesIdPattern(data, CallbackType.DELETE_TRANSACTION)
    THEN "delete_transaction_callback"
    ELSE IF data = "s:delete_recent" THEN "settings_delete_recent_handler"
    ELSE ""

\* the texts typed where an amount is asked for
FlowAmountTexts == { "abc", "0", "-50", "20" }

\* the texts typed where a description is asked for
FlowDescriptions == { "almuerzo", " " }

\* the buttons pressed: of categories (one of each type and one that does not exist), of
\* the two lists of recent transactions, of the description question
PressSamples ==
    { build_category(c.id).value : c \in {r \in categories : r.name \in {"Comida", "Salario"}} }
    \cup { build_category(MaxId(categories) + 1).value }
    \cup { delete_transaction(id).value : id \in 1..MaxTxId }
    \cup { "del_tx_" \o IntToStr(id) : id \in 1..MaxTxId }
    \cup { expense_desc("yes").value, expense_desc("no").value }

\* /gasto: a command reaches the entry point of a conversation that is not open, whatever
\* the state of the conversations registered before it
StartExpense(u) ==
    /\ upd.handler = ""
    /\ conversations[u].expense = END
    /\ ApplyFlow(u, "expense", "start_expense", "",
                 start_expense(user_data[u], categories, transactions, tx_seq))

\* a text while the expense conversation waits for the amount
ExpenseAmountReceived(u) ==
    /\ upd.handler = ""
    /\ text_handler(conv[u], conversations[u]) = "expense_amount_received"
    /\ \E text \in FlowAmountTexts :
          ApplyFlow(u, "expense", "expense_amount_received", text,
                    expense_amount_received(text, u, user_data[u], categories, transactions, tx_seq))

\* a press on a category button while the expense conversation waits for the category
ExpenseCategorySelected(u) ==
    /\ upd.handler = ""
    /\ \E data \in PressSamples : \E now_utc \in NowSamples :
          /\ callback_handler(data, conversations[u]) = "expense_category_selected"
          /\ ApplyFlow(u, "expense", "expense_category_selected", data,
                       expense_category_selected(data, u, user_data[u], categories, transactions,
                                                 tx_seq, now_utc))

\* a press on "Sí, agregar" or "No, guardar"
ExpenseDescriptionDecision(u) ==
    /\ upd.handler = ""
    /\ \E data \in PressSamples : \E now_utc \in NowSamples :
          /\ callback_handler(data, conversations[u]) = "expense_description_decision"
          /\ ApplyFlow(u, "expense", "expense_description_decision", data,
                       expense_description_decision(data, u, user_data[u], categories,
                                                    transactions, tx_seq, now_utc))

\* a text while the expense conversation waits for the category or for the description
ExpenseDescriptionReceived(u) ==
    /\ upd.handler = ""
    /\ text_handler(conv[u], conversations[u]) = "expense_description_received"
    /\ \E text \in FlowDescriptions : \E now_utc \in NowSamples :
       \E o \in expense_description_received(text, u, user_data[u], categories, transactions,
                                             tx_seq, now_utc) :
          ApplyFlow(u, "expense", "expense_description_received", text, o)

\* /cancel while the expense or the income conversation is open and the onboarding
\* conversation, registered before them, is not
CancelTransaction(u) ==
    /\ upd.handler = ""
    /\ conv[u] = END
    /\ conversations[u].expense # END \/ conversations[u].income # END
    /\ ApplyFlow(u, IF conversations[u].expense # END THEN "expense" ELSE "income",
                 "cancel_transaction", "",
                 cancel_transaction(user_data[u], categories, transactions, tx_seq))

\* a main menu button: dashboard, monthly_report, goals_menu and settings_menu are
\* registered on their own, before the conversations; each empties user_data, and what
\* it returns reaches no conversation
MainMenuButton(u) ==
    /\ upd.handler = ""
    /\ \E text \in DOMAIN MainMenuButtons :
          ApplyFlow(u, "", MainMenuButtons[text], text,
                    FOut(EmptyUserData, categories, transactions, tx_seq, <<>>, END, FALSE))

\* /ultimos
ShowRecentTransactions(u) ==
    /\ upd.handler = ""
    /\ \E r \in show_recent_transactions(transactions, u) :
          ApplyFlow(u, "", "show_recent_transactions", "",
                    FOut(user_data[u], categories, transactions, tx_seq, <<r.reply>>, "", FALSE))

\* a press on a button whose data matches ^dt:\d+$
DeleteTransactionCallback(u) ==
    /\ upd.handler = ""
    /\ \E data \in PressSamples :
          /\ callback_handler(data, conversations[u]) = "delete_transaction_callback"
          /\ ApplyFlow(u, "", "delete_transaction_callback", data,
                       delete_transaction_callback(data, u, user_data[u], categories, transactions,
                                                   tx_seq))

\* a press on a button whose data no registered handler matches: nothing runs
UnhandledCallbackQuery(u) ==
    /\ upd.handler = ""
    /\ \E data \in PressSamples :
          /\ callback_handler(data, conversations[u]) = ""
          /\ ApplyFlow(u, "", "unhandled", data,
                       FOut(user_data[u], categories, transactions, tx_seq, <<>>, "", FALSE))

\* what a handler of the budget and goal flows did
ApplyPlan(u, conversation, handler, text, o) ==
    /\ user_data' = [user_data EXCEPT ![u] = o.user_data]
    /\ budgets' = o.budgets
    /\ goals' = o.goals
    /\ conversations' = [conversations EXCEPT ![u][conversation] = o.ret]
    /\ upd' = FlowUpd(handler, u, text,
                      FOut(o.user_data, categories, transactions, tx_seq, o.replies, o.ret,
                           o.committed))
    /\ UNCHANGED <<api_key, users, categories, transactions, conv, aq, px, fn, tx_seq>>

\* the buttons pressed in the budget and goal conversations: of categories (one of each
\* type and one that does not exist) and of goals (those of the table and one more)
PlanPresses ==
    { budget_category(c.id).value : c \in {r \in categories : r.name \in {"Comida", "Salario"}} }
    \cup { budget_category(MaxId(categories) + 1).value }
    \cup { goal_contribution(id).value : id \in 1..(MaxId(goals) + 1) }

\* the names typed for a goal
GoalNames == { "viaje", " " }

\* the largest current_amount, in whole units, the model lets a goal reach
MaxSaved == 20

\* /ingreso
StartIncome(u) ==
    /\ upd.handler = ""
    /\ conversations[u].income = END
    /\ ApplyFlow(u, "income", "start_income", "",
                 start_income(user_data[u], categories, transactions, tx_seq))

\* a text while the income conversation waits for the amount
IncomeAmountReceived(u) ==
    /\ upd.handler = ""
    /\ text_handler(conv[u], conversations[u]) = "income_amount_received"
    /\ \E text \in FlowAmountTexts :
          ApplyFlow(u, "income", "income_amount_received", text,
                    income_amount_received(text, u, user_data[u], categories, transactions, tx_seq))

\* /presupuesto
StartBudget(u) ==
    /\ upd.handler = ""
    /\ conversations[u].budget = END
    /\ ApplyPlan(u, "budget", "start_budget", "",
                 start_budget(u, user_data[u], categories, budgets, goals))

\* a press on a category button of the budget conversation
BudgetCategorySelected(u) ==
    /\ upd.handler = ""
    /\ \E data \in PlanPresses :
          /\ callback_handler(data, conversations[u]) = "budget_category_selected"
          /\ ApplyPlan(u, "budget", "budget_category_selected", data,
                       budget_category_selected(data, u, user_data[u], categories, budgets, goals))

\* a text while the budget conversation waits for the amount
BudgetAmountReceived(u) ==
    /\ upd.handler = ""
    /\ text_handler(conv[u], conversations[u]) = "budget_amount_received"
    /\ \E text \in FlowAmountTexts : \E now_utc \in NowSamples :
       \E o \in budget_amount_received(text, u, user_data[u], categories, budgets, goals, now_utc) :
          ApplyPlan(u, "budget", "budget_amount_received", text, o)

\* /cancel while the budget conversation is open
CancelBudgetFlow(u) ==
    /\ upd.handler = ""
    /\ conv[u] = END
    /\ conversations[u].budget # END
    /\ conversations[u].expense = END /\ conversations[u].income = END
    /\ conversations[u].category = END
    /\ ApplyPlan(u, "budget", "cancel_budget_flow", "",
                 cancel_budget_flow(user_data[u], budgets, goals))

\* /crear_meta
StartGoalCreation(u) ==
    /\ upd.handler = ""
    /\ conversations[u].goal_creation = END
    /\ ApplyPlan(u, "goal_creation", "start_goal_creation", "",
                 start_goal_creation(user_data[u], budgets, goals))

\* a text while the goal conversation waits for the name
GoalNameReceived(u) ==
    /\ upd.handler = ""
    /\ text_handler(conv[u], conversations[u]) = "goal_name_received"
    /\ \E text \in GoalNames :
          ApplyPlan(u, "goal_creation", "goal_name_received", text,
                    goal_name_received(text, user_data[u], budgets, goals))

\* a text while the goal conversation waits for the target amount
GoalTargetReceived(u) ==
    /\ upd.handler = ""
    /\ text_handler(conv[u], conversations[u]) = "goal_target_received"
    /\ \E text \in FlowAmountTexts :
       \E o \in goal_target_received(text, u, user_data[u], budgets, goals) :
          ApplyPlan(u, "goal_creation", "goal_target_received", text, o)

\* /aportar_meta
StartGoalContribution(u) ==
    /\ upd.handler = ""
    /\ conversations[u].goal_contribution = END
    /\ ApplyPlan(u, "goal_contribution", "start_goal_contribution", "",
                 start_goal_contribution(u, user_data[u], budgets, goals))

\* a press on a goal button of the contribution conversation
GoalContributionSelected(u) ==
    /\ upd.handler = ""
    /\ \E data \in PlanPresses :
          /\ callback_handler(data, conversations[u]) = "goal_contribution_selected"
          /\ ApplyPlan(u, "goal_contribution", "goal_contribution_selected", data,
                       goal_contribution_selected(data, u, user_data[u], budgets, goals))

\* a text while the contribution conversation waits for the amount
GoalContributionAmountReceived(u) ==
    /\ upd.handler = ""
    /\ text_handler(conv[u], conversations[u]) = "goal_contribution_amount_received"
    /\ \E text \in FlowAmountTexts :
       LET o == goal_contribution_amount_received(text, u, user_data[u], budgets, goals)
       IN  /\ \A g \in o.goals : g.current_amount <= MaxSaved * 100
           /\ ApplyPlan(u, "goal_contribution", "goal_contribution_amount_received", text, o)

\* the users who open a conversation; every user types, presses buttons and uses the menu
Spenders == {7}

NextRouter ==
    \/ DebugUpdate
    \/ \E u \in Spenders : StartExpense(u)
    \/ \E u \in UserIds : CancelTransaction(u)
    \/ \E u \in Spenders : StartBudget(u)
    \/ \E u \in UserIds : BudgetCategorySelected(u)
    \/ \E u \in UserIds : CancelBudgetFlow(u)
    \/ \E u \in UserIds : HandleTextMessage(u)

SpecRouter == Init /\ [][NextRouter]_vars

\* a press on a category button while the income conversation waits for the category
IncomeCategorySelected(u) ==
    /\ upd.handler = ""
    /\ \E data \in PressSamples : \E now_utc \in NowSamples :
          /\ callback_handler(data, conversations[u]) = "income_category_selected"
          /\ \E o \in income_category_selected(data, u, user_data[u], categories, transactions,
                                               tx_seq, now_utc) :
                ApplyFlow(u, "income", "income_category_selected", data, o)

\* a text while the income conversation waits for the category
IncomeDescriptionReceived(u) ==
    /\ upd.handler = ""
    /\ text_handler(conv[u], conversations[u]) = "income_description_received"
    /\ \E text \in FlowDescriptions : \E now_utc \in NowSamples :
       \E o \in income_description_received(text, u, user_data[u], categories, transactions,
                                            tx_seq, now_utc) :
          ApplyFlow(u, "income", "income_description_received", text, o)

\* the buttons pressed in the management of categories: of the menu, and of the list for
\* the deletion the two default categories and one that does not exist
CategoryPresses ==
    { category_manage(a).value : a \in {"delete", "rename"} }
    \cup { delete_category(c.id).value : c \in {r \in categories : r.is_default} }
    \cup { delete_category(MaxId(categories) + 1).value }

\* /categorias
CategoryManagementMenu(u) ==
    /\ upd.handler = ""
    /\ conversations[u].category = END
    /\ ApplyFlow(u, "category", "category_management_menu", "",
                 category_management_menu(user_data[u], categories, transactions, tx_seq))

\* a press on a button of the menu of the management of categories
CategoryMenuSelection(u) ==
    /\ upd.handler = ""
    /\ \E data \in CategoryPresses :
          /\ callback_handler(data, conversations[u]) = "category_menu_selection"
          /\ ApplyFlow(u, "category", "category_menu_selection", data,
                       category_menu_selection(data, u, user_data[u], categories, transactions,
                                               tx_seq))

\* the ids of categories explored: no deletion once the table has grown past it
MaxCategoryId == 13

\* a press on a category of the list for the deletion; the budgets of the category go
\* with it
CategoryDeleteSelected(u) ==
    /\ upd.handler = ""
    /\ MaxId(categories) < MaxCategoryId
    /\ \E data \in CategoryPresses :
          /\ callback_handler(data, conversations[u]) = "category_delete_selected"
          /\ LET o == category_delete_selected(data, u, user_data[u], categories, transactions,
                                               tx_seq)
             IN  /\ user_data' = [user_data EXCEPT ![u] = o.user_data]
                 /\ categories' = o.categories
                 /\ transactions' = o.transactions
                 /\ budgets' = {b \in budgets : \E c \in o.categories : c.id = b.category_id}
                 /\ conversations' = [conversations EXCEPT ![u].category = o.ret]
                 /\ upd' = FlowUpd("category_delete_selected", u, data, o)
    /\ UNCHANGED <<api_key, users, conv, aq, px, fn, tx_seq, goals>>

\* /cancel while the management of categories is the first open conversation
CancelCategoryManagement(u) ==
    /\ upd.handler = ""
    /\ conv[u] = END
    /\ conversations[u].expense = END /\ conversations[u].income = END
    /\ conversations[u].category # END
    /\ ApplyFlow(u, "category", "cancel_category_management", "",
                 cancel_category_management(user_data[u], categories, transactions, tx_seq))

\* the expense conversation, the main menu and the lists of recent transactions
NextLedger ==
    \/ DebugUpdate
    \/ \E u \in Spenders : StartExpense(u)
    \/ \E u \in UserIds : ExpenseAmountReceived(u)
    \/ \E u \in UserIds : ExpenseCategorySelected(u)
    \/ \E u \in UserIds : ExpenseDescriptionDecision(u)
    \/ \E u \in UserIds : ExpenseDescriptionReceived(u)
    \/ \E u \in UserIds : CancelTransaction(u)
    \/ \E u \in UserIds : MainMenuButton(u)
    \/ \E u \in UserIds : ShowRecentTransactions(u)
    \/ \E u \in UserIds : DeleteTransactionCallback(u)
    \/ \E u \in UserIds : UnhandledCallbackQuery(u)

SpecLedger == Init /\ [][NextLedger]_vars

\* the steps of the five conversations that ask for an amount, and the main menu
NextAmounts ==
    \/ DebugUpdate
    \/ \E u \in Spenders : StartExpense(u)
    \/ \E u \in UserIds : ExpenseAmountReceived(u)
    \/ \E u \in UserIds : CancelTransaction(u)
    \/ \E u \in Spenders : StartIncome(u)
    \/ \E u \in UserIds : IncomeAmountReceived(u)
    \/ \E u \in Spenders : StartBudget(u)
    \/ \E u \in UserIds : BudgetCategorySelected(u)
    \/ \E u \in UserIds : BudgetAmountReceived(u)
    \/ \E u \in UserIds : CancelBudgetFlow(u)
    \/ \E u \in Spenders : StartGoalCreation(u)
    \/ \E u \in UserIds : GoalNameReceived(u)
    \/ \E u \in UserIds : GoalTargetReceived(u)
    \/ \E u \in Spenders : StartGoalContribution(u)
    \/ \E u \in UserIds : GoalContributionSelected(u)
    \/ \E u \in UserIds : GoalContributionAmountReceived(u)
    \/ \E u \in UserIds : MainMenuButton(u)

SpecAmounts == Init /\ [][NextAmounts]_vars


\* the expense conversation next to the management of categories
NextFlags ==
    \/ DebugUpdate
    \/ \E u \in Spenders : StartExpense(u)
    \/ \E u \in UserIds : ExpenseAmountReceived(u)
    \/ \E u \in UserIds : ExpenseCategorySelected(u)
    \/ \E u \in UserIds : ExpenseDescriptionDecision(u)
    \/ \E u \in UserIds : ExpenseDescriptionReceived(u)
    \/ \E u \in UserIds : CancelTransaction(u)
    \/ \E u \in Spenders : CategoryManagementMenu(u)
    \/ \E u \in UserIds : CategoryMenuSelection(u)
    \/ \E u \in UserIds : CategoryDeleteSelected(u)
    \/ \E u \in UserIds : CancelCategoryManagement(u)

SpecFlags == Init /\ [][NextFlags]_vars

(***************************************************************************)
(* The onboarding conversation after /start: the demo question, the choice *)
(* of categories, the custom categories and the end.                       *)
(***************************************************************************)
\* the handler of the onboarding conversation left o; rows is the table users it leaves
ApplyOnboarding(u, handler, text, o, rows, table) ==
    /\ user_data' = [user_data EXCEPT ![u] = o.user_data]
    /\ conv' = [conv EXCEPT ![u] = o.ret]
    /\ users' = rows
    /\ categories' = table
    /\ upd' = FlowUpd(handler, u, text,
                      FOut(o.user_data, table, transactions, tx_seq, o.replies, o.ret,
                           table # categories \/ rows # users))
    /\ UNCHANGED <<api_key, transactions, aq, px, fn, conversations, tx_seq, budgets, goals>>

\* the categories whose buttons are pressed: two locked, two free of each type, and one
\* the keyboard does not show
ToggleNames == {"General", "General Ingreso", "Comida", "Salario", "Mascotas"}

\* the buttons pressed during the onboarding
OnboardingPresses ==
    { onboarding("toggle", <<n>>).value : n \in ToggleNames }
    \cup { onboarding(a, <<>>).value : a \in {"demo", "skip_demo", "next", "toggle", "finish"} }

\* the texts typed where the custom categories are asked for
CustomCategoryTexts == { "no", "Mascotas, Comida" }

\* a press that matches ^o:(demo|skip_demo)$ while the conversation is in ONBOARDING_DEMO
OnboardingDemoHandler(u) ==
    /\ upd.handler = ""
    /\ conv[u] = ONBOARDING_DEMO
    /\ \E data \in {onboarding("demo", <<>>).value, onboarding("skip_demo", <<>>).value} :
          ApplyOnboarding(u, "onboarding_demo_handler", data,
                          onboarding_demo_handler(data, user_data[u]), users, categories)

\* a press that matches ^o:(toggle|next).*$ while the conversation is in
\* ONBOARDING_CATEGORY_CHOICES
OnboardingCategoryChoice(u) ==
    /\ upd.handler = ""
    /\ conv[u] = ONBOARDING_CATEGORY_CHOICES
    /\ \E data \in OnboardingPresses :
          /\ StartsWith(data, "o:toggle") \/ StartsWith(data, "o:next")
          /\ ApplyOnboarding(u, "onboarding_category_choice", data,
                             onboarding_category_choice(data, user_data[u]), users, categories)

\* a text while the conversation is in ONBOARDING_CUSTOM_INPUT
OnboardingCustomCategories(u) ==
    /\ upd.handler = ""
    /\ conv[u] = ONBOARDING_CUSTOM_INPUT
    /\ \E text \in CustomCategoryTexts :
          ApplyOnboarding(u, "onboarding_custom_categories", text,
                          onboarding_custom_categories(text, user_data[u]), users, categories)

\* the button "Finalizar" in ONBOARDING_COMPLETE, or /cancel in any state of the
\* onboarding conversation
OnboardingFinish(u) ==
    /\ upd.handler = ""
    /\ conv[u] # END
    /\ \E text \in {onboarding("finish", <<>>).value, "/cancel"} :
          /\ text = "/cancel" \/ conv[u] = ONBOARDING_COMPLETE
          /\ \E o \in onboarding_finish(u, user_data[u], users, categories) :
                ApplyOnboarding(u, "onboarding_finish", text, o, o.users, o.categories)

NextOnboarding ==
    \/ DebugUpdate
    \/ \E u \in UserIds : OnboardingStart(u)
    \/ \E u \in UserIds : OnboardingDemoHandler(u)
    \/ \E u \in UserIds : OnboardingCategoryChoice(u)
    \/ \E u \in UserIds : OnboardingCustomCategories(u)
    \/ \E u \in UserIds : OnboardingFinish(u)
    \/ \E u \in UserIds : MainMenuButton(u)

SpecOnboarding == Init /\ [][NextOnboarding]_vars

(***************************************************************************)
(* The helper functions on their own, each applied to sampled arguments.   *)
(***************************************************************************)
ClassifyIntent ==
    /\ \E text \in Questions : \E c \in _classify_intent_table[text, api_key] :
          fn' = [name |-> "_classify_intent", text |-> text, out |-> c]
    /\ UNCHANGED <<api_key, users, categories, transactions, conv, user_data, upd, aq, px,
                 conversations, tx_seq, budgets, goals>>

\* the hours the clock is sampled on, from midnight UTC of the day of T0
MaxClockHour == 29

\* the instants get_now_utc() can return
ClockSamples == { T0 + h : h \in 0..MaxClockHour }

\* the date strings handed to _process_ai_date: the days around T0, and strings that
\* strptime rejects
DateStrings ==
    { FormatIsoDate(T0 \div 24 + k) : k \in (0 - 3)..2 } \cup { "ayer", "2025-02-30", "" }

\* _process_ai_date, tabulated over its arguments
_process_ai_date_table ==
    [date_str \in DateStrings, now_utc \in ClockSamples |-> _process_ai_date(date_str, now_utc)]

ProcessAiDate ==
    /\ \E date_str \in DateStrings : \E now_utc \in ClockSamples :
          fn' = [name |-> "_process_ai_date", date_str |-> date_str, now_utc |-> now_utc,
                 out |-> _process_ai_date_table[date_str, now_utc]]
    /\ UNCHANGED <<api_key, users, categories, transactions, conv, user_data, upd, aq, px,
                 conversations, tx_seq, budgets, goals>>

\* the texts a user types for an amount: whole part, separator, decimals, with or
\* without blanks around
IntParts == { "0", "7", "20", "1500" }
Fracs == { "", "5", "50", "05", "004", "005", "015", "025", "999" }
Seps == { ",", "." }
Pads == { "", " " }

AmountText(i, s, f, p) == p \o i \o (IF f = "" THEN "" ELSE s \o f) \o p

\* texts parse_amount has to reject
RejectedTexts ==
    { "", " ", "abc", "-50", "-0,5", "0", "0,00", "0.0", "1.2.3", "12,5,0", "1 000",
      "20k", "$20", "NaN", "Infinity", "," }

AmountTexts ==
    { AmountText(i, s, f, p) : i \in IntParts, s \in Seps, f \in Fracs, p \in Pads }
    \cup RejectedTexts

\* parse_amount, tabulated over its argument
parse_amount_table == [value \in AmountTexts |-> parse_amount(value)]

ParseAmount ==
    /\ \E value \in AmountTexts :
          fn' = [name |-> "parse_amount", value |-> value, out |-> parse_amount_table[value]]
    /\ UNCHANGED <<api_key, users, categories, transactions, conv, user_data, upd, aq, px,
                 conversations, tx_seq, budgets, goals>>

\* the callback types whose data carries one id
IdTypes ==
    {"CATEGORY", "DELETE_TRANSACTION", "GOAL_CONTRIB", "BUDGET_CAT", "DELETE_CATEGORY",
     "RENAME_CATEGORY"}

\* the builder and the parser of CallbackManager for an id of the type named t
build_id(t, id) ==
    CASE t = "CATEGORY" -> build_category(id)
      [] t = "DELETE_TRANSACTION" -> delete_transaction(id)
      [] t = "GOAL_CONTRIB" -> goal_contribution(id)
      [] t = "BUDGET_CAT" -> budget_category(id)
      [] t = "DELETE_CATEGORY" -> delete_category(id)
      [] t = "RENAME_CATEGORY" -> rename_category(id)

parse_id(t, callback_data) ==
    CASE t = "CATEGORY" -> parse_category(callback_data)
      [] t = "DELETE_TRANSACTION" -> parse_delete_transaction(callback_data)
      [] t = "GOAL_CONTRIB" -> parse_goal_contribution(callback_data)
      [] t = "BUDGET_CAT" -> parse_budget_category(callback_data)
      [] t = "DELETE_CATEGORY" -> parse_delete_category(callback_data)
      [] t = "RENAME_CATEGORY" -> parse_rename_category(callback_data)

\* the ids the builders are given
CallbackIds == { 0, 1, 9, 10, 123, 2147483647 }

\* what stands where the id is expected
IdTexts == { "123", "abc", "1.5", "", "--1", "0x1F" }

\* the callback_data the parsers are given: every prefix with every id text, with no
\* part, with two parts, and texts without a known prefix
CallbackDataSamples ==
    { CallbackType[k] \o SEPARATOR \o id : k \in DOMAIN CallbackType, id \in IdTexts }
    \cup { CallbackType[k] : k \in DOMAIN CallbackType }
    \cup { CallbackType[k] \o ":1:2" : k \in DOMAIN CallbackType }
    \cup { CallbackType[k] \o ":1:" : k \in DOMAIN CallbackType }
    \cup { "", "invalid:123", "del_tx_1", "C:5", ":5" }

\* a builder applied to an id, and the parser of the same type applied to what it built
CallbackRoundTrip ==
    /\ \E t \in IdTypes : \E id \in CallbackIds :
          LET built == build_id(t, id)
          IN  fn' = [name |-> "callback_round_trip", type |-> t, id |-> id, built |-> built,
                     parsed |-> IF built.kind = "return" THEN parse_id(t, built.value)
                                ELSE ValueError]
    /\ UNCHANGED <<api_key, users, categories, transactions, conv, user_data, upd, aq, px,
                 conversations, tx_seq, budgets, goals>>

\* a parser applied to callback_data of any origin
ParseCallback ==
    /\ \E t \in IdTypes : \E callback_data \in CallbackDataSamples :
          fn' = [name |-> "parse_callback", type |-> t, callback_data |-> callback_data,
                 out |-> parse_id(t, callback_data)]
    /\ UNCHANGED <<api_key, users, categories, transactions, conv, user_data, upd, aq, px,
                 conversations, tx_seq, budgets, goals>>

NextHelpers ==
    \/ ClassifyIntent
    \/ ProcessAiDate
    \/ ParseAmount

SpecHelpers == Init /\ [][NextHelpers]_vars

RECURSIVE Repeat(_, _)
\* the Python expression s * n
Repeat(s, n) == IF n <= 0 THEN "" ELSE s \o Repeat(s, n - 1)

\* the lengths of the texts the builders are given: around the limit in characters and,
\* for letters of two bytes, around the limit in bytes
MaxPartLen == 33
PartLens == (MaxPartLen - 7)..MaxPartLen
PartTexts ==
    { Repeat("A", 2 * n - 2) : n \in PartLens }
    \cup { Repeat("A", 2 * n - 1) : n \in PartLens }
    \cup { Repeat("ñ", n) : n \in PartLens }
    \cup { "Educación", "yes", "create" }

\* the calls of the builders: the prefix and the parts each call joins, and what it returns
BuilderCalls ==
    { [builder |-> "settings", prefix |-> CallbackType.SETTINGS, parts |-> <<a>>,
       out |-> build_settings(a, <<>>)] : a \in PartTexts }
    \cup { [builder |-> "settings", prefix |-> CallbackType.SETTINGS, parts |-> <<"currency", a>>,
            out |-> build_settings("currency", <<a>>)] : a \in PartTexts }
    \cup { [builder |-> "onboarding", prefix |-> CallbackType.ONBOARDING, parts |-> <<"toggle", a>>,
            out |-> onboarding("toggle", <<a>>)] : a \in PartTexts }
    \cup { [builder |-> "goals", prefix |-> CallbackType.GOALS, parts |-> <<a>>,
            out |-> build_goals(a)] : a \in PartTexts }
    \cup { [builder |-> "budgets", prefix |-> CallbackType.BUDGETS, parts |-> <<a>>,
            out |-> build_budgets(a)] : a \in PartTexts }
    \cup { [builder |-> "category_manage", prefix |-> CallbackType.CATEGORY_MANAGE,
            parts |-> <<a>>, out |-> category_manage(a)] : a \in PartTexts }
    \cup { [builder |-> "category_add_type", prefix |-> CallbackType.CATEGORY_ADD_TYPE,
            parts |-> <<a>>, out |-> category_add_type(a)] : a \in PartTexts }
    \cup { [builder |-> "expense_desc", prefix |-> CallbackType.EXPENSE_DESC, parts |-> <<a>>,
            out |-> expense_desc(a)] : a \in PartTexts }
    \cup { [builder |-> t, prefix |-> CallbackType[t], parts |-> <<IntToStr(id)>>,
            out |-> build_id(t, id)] : t \in IdTypes, id \in CallbackIds }

\* a builder of CallbackManager applied to sampled arguments
BuildCallback ==
    /\ fn.name # "build_callback"
    /\ \E call \in BuilderCalls :
          fn' = [name |-> "build_callback", builder |-> call.builder, prefix |-> call.prefix,
                 parts |-> call.parts, out |-> call.out]
    /\ UNCHANGED <<api_key, users, categories, transactions, conv, user_data, upd, aq, px,
                 conversations, tx_seq, budgets, goals>>

\* forget the last call
ResetCall ==
    /\ fn.name = "build_callback"
    /\ fn' = NoFnCall
    /\ UNCHANGED <<api_key, users, categories, transactions, conv, user_data, upd, aq, px,
                 conversations, tx_seq, budgets, goals>>

NextBuilders ==
    \/ BuildCallback
    \/ ResetCall

SpecBuilders == Init /\ [][NextBuilders]_vars

\* the builders and the parsers of CallbackManager on their own
NextCallbacks ==
    \/ CallbackRoundTrip
    \/ ParseCallback

SpecCallbacks == Init /\ [][NextCallbacks]_vars


(***************************************************************************)
(* Properties of the analytics service (SpecAnalytics)                     *)
(***************************************************************************)
\* the questions that contain a destructive keyword as a substring, whatever the case
DestructiveQuestions ==
    { q \in Questions :
        \E i \in DOMAIN destructive_keywords : Contains(Upper(q), Upper(destructive_keywords[i])) }

InTrace(ev, trace) == \E i \in DOMAIN trace : trace[i] = ev

\* C1: a question that contains a destructive keyword, in any case, is answered with the
\* fixed refusal and neither the SQL-generation model nor the database is called
C1_PrefilterRefuses ==
    (aq.called /\ aq.question \in DestructiveQuestions)
    => /\ aq.out.kind = "return"
       /\ aq.out.value = REFUSAL_PREFILTER
       /\ ~InTrace(EV_GENERATE, aq.out.trace)
       /\ ~InTrace(EV_EXECUTE, aq.out.trace)
       /\ ~aq.out.gen.ok /\ aq.out.db = NoDb

C1_Witness ==
    /\ aq.called
    /\ aq.question = "Quiero BORRAR todo"
    /\ aq.out.value = REFUSAL_PREFILTER
    /\ aq.out.trace = <<>>

\* SQL that is not a single SELECT-only statement, or that names a DDL/DML keyword
DeniedKeywords ==
    { "DROP", "DELETE", "INSERT", "UPDATE", "TRUNCATE", "ALTER", "CREATE", "GRANT",
      "REVOKE", "EXEC", "EXECUTE", "MERGE", "COPY", "CALL", "COMMIT", "ROLLBACK" }

NotSelectOnly(sql) ==
    \/ ~StartsWith(Upper(Strip(sql)), "SELECT")
    \/ Contains(sql, ";")
    \/ \E kw \in DeniedKeywords : Contains(Upper(sql), kw)

\* C2: generated SQL that does not start with SELECT once trimmed and uppercased, or
\* holds a semicolon, or holds a denylisted keyword, never reaches the database, and when
\* it is submitted for execution the request ends with the safety error
C2_UnsafeSqlRejected ==
    (aq.called /\ aq.out.gen.ok /\ NotSelectOnly(aq.out.sql))
    => /\ ~InTrace(EV_EXECUTE, aq.out.trace)
       /\ aq.out.db = NoDb
       /\ aq.out.submitted
            => /\ aq.out.kind = "ValueError"
               /\ StartsWith(aq.out.value, "Consulta SQL no segura: ")

C2_Witness ==
    /\ aq.called /\ aq.out.gen.ok /\ aq.out.submitted
    /\ aq.out.sql = "SELECT 1 ;SELECT 2"
    /\ aq.out.kind = "ValueError"

\* the text of the query names the id of the user
ScopedTo(sql, user_id) == Contains(sql, IntToStr(user_id))

\* C3 as stated: every query sent to the database is read-only and restricted to the id
\* of the requesting user
C3_ReadOnlyAndScoped ==
    (aq.called /\ InTrace(EV_EXECUTE, aq.out.trace))
    => /\ ~NotSelectOnly(aq.out.sql)
       /\ ScopedTo(aq.out.sql, aq.user_id)

\* C3, amended: every query sent to the database is a single SELECT-only statement free
\* of denylisted keywords; that it names the id of the requesting user is not enforced
C3_ReadOnly ==
    (aq.called /\ InTrace(EV_EXECUTE, aq.out.trace))
    => /\ aq.out.submitted
       /\ ~NotSelectOnly(aq.out.sql)

\* a query that names no user at all was executed
C3_Witness ==
    /\ aq.called
    /\ InTrace(EV_EXECUTE, aq.out.trace)
    /\ aq.out.sql = "select amount from transactions"
    /\ ~ScopedTo(aq.out.sql, aq.user_id)

\* C8: generated SQL that holds the marker ACTION_NOT_ALLOWED is answered with the
\* refusal, without executing anything and without calling the interpretation model
C8_MarkerInSqlRefused ==
    (aq.called /\ aq.out.gen.ok /\ Contains(aq.out.sql, "ACTION_NOT_ALLOWED"))
    => /\ aq.out.kind = "return"
       /\ aq.out.value = REFUSAL_GENERATED
       /\ ~aq.out.submitted
       /\ ~InTrace(EV_EXECUTE, aq.out.trace)
       /\ ~InTrace(EV_INTERPRET, aq.out.trace)

C8_Witness ==
    /\ aq.called /\ aq.out.gen.ok
    /\ aq.out.sql = "SELECT 'ACTION_NOT_ALLOWED'"
    /\ aq.out.value = REFUSAL_GENERATED

\* a value of some row of the result equals the marker
MarkerInRows(rows) ==
    \E r \in DOMAIN rows : \E c \in DOMAIN rows[r] :
        rows[r][c].t = "str" /\ rows[r][c].s = "ACTION_NOT_ALLOWED"

\* C9: when a value of any row of the result equals the marker, the interpretation model
\* is not called and the answer is the refusal, the same string at every checkpoint
C9_MarkerInRowsRefused ==
    (aq.called /\ InTrace(EV_EXECUTE, aq.out.trace) /\ aq.out.db.err = ""
        /\ MarkerInRows(aq.out.db.rows))
    => /\ ~InTrace(EV_INTERPRET, aq.out.trace)
       /\ aq.out.interp = NoResp
       /\ aq.out.kind = "return"
       /\ aq.out.value = REFUSAL_PREFILTER
       /\ aq.out.value = REFUSAL_GENERATED
       /\ REFUSAL_RESULTS = REFUSAL_INTERPRET

\* the marker is in the second row, not in the first
C9_Witness ==
    /\ aq.called /\ InTrace(EV_EXECUTE, aq.out.trace)
    /\ Len(aq.out.db.rows) = 2
    /\ ~MarkerInRows(SubSeq(aq.out.db.rows, 1, 1))
    /\ MarkerInRows(aq.out.db.rows)
    /\ aq.out.value = REFUSAL_INTERPRET

\* C10: the question "Borra todas mis transacciones" is refused at once by the keyword
\* pre-filter, with no call of the SQL-generation model
C10_BorraRefused ==
    (aq.called /\ aq.question = "Borra todas mis transacciones")
    => /\ aq.out.kind = "return"
       /\ aq.out.value = REFUSAL_PREFILTER
       /\ ~InTrace(EV_GENERATE, aq.out.trace)


(***************************************************************************)
(* Properties of the extraction service (SpecExtraction)                   *)
(***************************************************************************)
\* the six checks an extraction result has to pass, stated on the answer of the model
PassesAllChecks(parsed, cats, now_utc) ==
    /\ AllFields \subseteq parsed.has
    /\ parsed.amount.num /\ parsed.amount.milli > 0
    /\ parsed.category_id.int
    /\ Lower(parsed.type) \in {"expense", "income"}
    /\ \E c \in cats : c.id = parsed.category_id.n /\ c.type = Lower(parsed.type)
    /\ LET d == ParseIsoDate(Strip(parsed.date))
       IN  /\ d # -1
           /\ d <= ServerToday(now_utc)
           /\ d >= ServerToday(now_utc) - 3650

\* C6: every answer of the model that fails a check is reported by parse_transaction as
\* a ValueError, the class that tells it from the RuntimeError of a failed call
C6_ValidationFailureIsValueError ==
    (px.called /\ px.out.resp.ok /\ px.out.resp.json
        /\ ~PassesAllChecks(px.out.resp.parsed, px.categories, px.now))
    => px.out.kind = "ValueError"

\* the category the answer names exists and its type is not the declared one
TypeMismatch(parsed, cats) ==
    /\ AllFields \subseteq parsed.has
    /\ parsed.category_id.int
    /\ \E c \in cats : c.id = parsed.category_id.n /\ c.type # Lower(parsed.type)

\* C7: an answer whose category has another type than the declared one makes the
\* extraction fail; no result is returned, so neither value is corrected
C7_TypeMismatchFails ==
    (px.called /\ px.out.resp.ok /\ px.out.resp.json
        /\ TypeMismatch(px.out.resp.parsed, px.categories))
    => /\ px.out.kind # "return"
       /\ px.out.result = NoResult

\* an income category with the declared type expense, everything else valid
C7_Witness ==
    /\ px.called /\ px.out.resp.ok /\ px.out.resp.json
    /\ TypeMismatch(px.out.resp.parsed, px.categories)
    /\ px.out.resp.parsed.amount = Num(20000000)
    /\ px.out.resp.parsed.type = "expense"
    /\ px.out.resp.parsed.date = "2025-06-14"
    /\ Contains(px.out.value, "is of type income, but transaction type is expense")

(***************************************************************************)
(* Properties of the handlers (Spec)                                       *)
(***************************************************************************)
ExtractionHandlers == {"handle_text_message", "handle_photo_message", "onboarding_demo_process"}

\* C4: on the text, photo and onboarding-demo paths a Transaction is persisted only after
\* parse_transaction returned a result that passed every check; when the extraction
\* raises or a check fails the table of transactions is left as it was
C4_PersistOnlyValidated ==
    upd.handler \in ExtractionHandlers
    => /\ Len(transactions) >= upd.tx_before
       /\ Len(transactions) > upd.tx_before
            => /\ Len(transactions) = upd.tx_before + 1
               /\ upd.px.called
               /\ upd.px.out.kind = "return"
               /\ PassesAllChecks(upd.px.out.resp.parsed,
                                  fetch_user_categories(categories, upd.user_id), upd.px.now)
               /\ transactions[Len(transactions)].user_id = upd.user_id
               /\ transactions[Len(transactions)].category_id = upd.px.out.result.category_id
               /\ transactions[Len(transactions)].amount = upd.px.out.result.amount
       /\ (upd.px.out.kind # "return"
           \/ ~PassesAllChecks(upd.px.out.resp.parsed,
                               fetch_user_categories(categories, upd.user_id), upd.px.now))
            => Len(transactions) = upd.tx_before

\* the onboarding demo stored the transaction the extraction returned
C4_Witness ==
    /\ upd.handler = "onboarding_demo_process"
    /\ upd.px.called /\ upd.px.out.kind = "return"
    /\ Len(transactions) = upd.tx_before + 1
    /\ transactions[Len(transactions)].amount = upd.px.out.result.amount

FallbackReplies ==
    { NOT_UNDERSTOOD, ROUTER_ERROR, QUERY_NOT_PROCESSED, QUERY_ERROR, QUERY_UNEXPECTED }

Leaks(reply, error_text) == error_text # "" /\ Contains(reply, error_text)

\* C5: no exception of the classification, the extraction, the analytics or the
\* persistence leaves process_user_text_input; each such failure ends with a reply of the
\* fixed set of fallback strings, and no reply holds the error text of the provider or
\* of the database
C5_FailuresEndInFallback ==
    upd.handler = "handle_text_message"
    => /\ upd.raised = ""
       /\ upd.failed # {}
            => /\ Len(upd.replies) >= 1
               /\ upd.replies[Len(upd.replies)] \in FallbackReplies
               /\ \A i \in DOMAIN upd.replies :
                     /\ ~Leaks(upd.replies[i], PROVIDER_ERROR)
                     /\ ~Leaks(upd.replies[i], DATABASE_ERROR)
                     /\ ~Leaks(upd.replies[i], upd.aq.value)
                     /\ ~Leaks(upd.replies[i], upd.px.out.value)

\* the database refused the query and the user got the fixed reply
C5_Witness ==
    /\ upd.handler = "handle_text_message"
    /\ upd.failed = {"analytics"}
    /\ upd.aq.kind = "RuntimeError"
    /\ Contains(upd.aq.value, DATABASE_ERROR)
    /\ upd.replies = <<QUERY_ERROR>>

(***************************************************************************)
(* The scoping check of _execute_safe_query (SpecAnalytics)                *)
(***************************************************************************)
\* the four static checks, stated on the text of the query
StaticallyValid(sql) == ~NotSelectOnly(sql) /\ ~Contains(Upper(sql), "PG_")

Position(ev, trace) == CHOOSE i \in DOMAIN trace : trace[i] = ev

\* C11 as stated: a validated query whose text does not hold the literal id of the
\* requesting user makes _execute_safe_query log the scoping warning, and the query is
\* executed in every case
C11_WarnsWithoutLiteralId ==
    (aq.called /\ aq.out.submitted /\ StaticallyValid(aq.out.sql))
    => /\ InTrace(EV_EXECUTE, aq.out.trace)
       /\ ~ScopedTo(aq.out.sql, aq.user_id) => InTrace(EV_WARN, aq.out.trace)

\* C11, amended: the scoping warning is logged exactly when the text of the validated
\* query holds neither the literal id of the requesting user nor the word user_id (in
\* any case); warned or not, the query is executed, after the warning
C11_WarnsAndExecutes ==
    (aq.called /\ aq.out.submitted /\ StaticallyValid(aq.out.sql))
    => /\ InTrace(EV_EXECUTE, aq.out.trace)
       /\ InTrace(EV_WARN, aq.out.trace)
            <=> (~ScopedTo(aq.out.sql, aq.user_id) /\ ~Contains(Upper(aq.out.sql), "USER_ID"))
       /\ InTrace(EV_WARN, aq.out.trace)
            => Position(EV_WARN, aq.out.trace) < Position(EV_EXECUTE, aq.out.trace)

\* the warning was logged and the query went to the database all the same
C11_Witness ==
    /\ aq.called /\ aq.out.submitted
    /\ StaticallyValid(aq.out.sql)
    /\ ~ScopedTo(aq.out.sql, aq.user_id)
    /\ InTrace(EV_WARN, aq.out.trace)
    /\ InTrace(EV_EXECUTE, aq.out.trace)

(***************************************************************************)
(* The query branch, end to end (SpecQuery)                                *)
(***************************************************************************)
\* the fixed apologies of the query branch and of the router
ApologyReplies == { QUERY_NOT_PROCESSED, QUERY_ERROR, QUERY_UNEXPECTED, ROUTER_ERROR }

\* ev1 and ev2 both happened, ev1 first
Before(ev1, ev2, trace) ==
    \E i, j \in DOMAIN trace : i < j /\ trace[i] = ev1 /\ trace[j] = ev2

\* a value of some row is the marker, in any letter case
MarkerInRowsAnyCase(rows) ==
    \E r \in DOMAIN rows : \E c \in DOMAIN rows[r] :
        rows[r][c].t = "str" /\ Upper(rows[r][c].s) = "ACTION_NOT_ALLOWED"

\* a text classified as a query, free of destructive keywords, whose generated SQL passed
\* validation and was executed without error
CleanQueryRun ==
    /\ upd.handler = "_handle_query" /\ upd.intent = "query"
    /\ aq.called /\ aq.question = upd.text /\ aq.user_id = upd.user_id
    /\ upd.text \notin DestructiveQuestions
    /\ aq.out.submitted
    /\ StaticallyValid(aq.out.sql)
    /\ aq.out.db.err = ""

\* generation, then execution of the validated query, then interpretation, and the reply
\* is the text the interpretation step returned, not an apology
InterpretedReply ==
    /\ Before(EV_GENERATE, EV_EXECUTE, aq.out.trace)
    /\ Before(EV_EXECUTE, EV_INTERPRET, aq.out.trace)
    /\ aq.out.kind = "return"
    /\ upd.replies = <<aq.out.value>>
    /\ aq.out.value \notin ApologyReplies
    /\ aq.out.value \in { Strip(aq.out.interp.text), interpret_fallback(aq.out.db.rows) }
    /\ upd.failed = {}

UnclearReply(resp) ==
    resp.ok /\ ~Contains(Lower(resp.text), "register") /\ ~Contains(Lower(resp.text), "query")

ReturnsIntent ==
    /\ fn.out.kind = "return"
    /\ fn.out.value \in {"register", "query"}
    /\ ~fn.out.resp.ok => fn.out.value = "query"
    /\ UnclearReply(fn.out.resp) => fn.out.value = "query"

\* C13 as stated: _classify_intent always returns "register" or "query" and never raises;
\* an unclear reply of the model and a failure of the call both give "query"
C13_ClassifierNeverRaises == fn.name = "_classify_intent" => ReturnsIntent

\* C13, amended: with GEMINI_API_KEY configured _classify_intent returns "register" or
\* "query" and does not raise, an unclear reply and a failed call both giving "query";
\* without the key it raises RuntimeError before calling the model
C13_ClassifierRaisesOnlyWithoutKey ==
    fn.name = "_classify_intent" =>
       IF api_key THEN ReturnsIntent
       ELSE fn.out.kind = "RuntimeError" /\ fn.out.resp = NoResp

\* the call of the model failed and the classifier answered "query"
C13_Witness ==
    /\ fn.name = "_classify_intent"
    /\ api_key
    /\ ~fn.out.resp.ok /\ fn.out.resp.text = PROVIDER_ERROR
    /\ fn.out.kind = "return" /\ fn.out.value = "query"

(***************************************************************************)
(* The router (Spec)                                                       *)
(***************************************************************************)
QueryReplies == { QUERY_NOT_PROCESSED, QUERY_ERROR, QUERY_UNEXPECTED }

\* C14: when the classification raises inside the router the intent is "register": the
\* text goes to the branch that extracts and persists, and the analytics branch is not
\* entered
C14_RaisedClassificationRegisters ==
    (upd.handler = "handle_text_message" /\ upd.cls_kind = "RuntimeError")
    => /\ upd.intent = "register"
       /\ upd.aq = NoAq
       /\ \A i \in DOMAIN upd.replies : upd.replies[i] \notin QueryReplies
       \* the register branch ran: it reached get_ai_service() or failed on its session
       /\ upd.px.out.kind = "RuntimeError" \/ "persistence" \in upd.failed

\* the classification raised and the register branch created the categories of the
\* user before it gave up on the extraction
C14_Witness ==
    /\ upd.handler = "handle_text_message"
    /\ upd.cls_kind = "RuntimeError"
    /\ upd.intent = "register"
    /\ fetch_user_categories(categories, upd.user_id) # {}
    /\ upd.replies = <<NOT_UNDERSTOOD>>

(***************************************************************************)
(* The short-circuits of the router (SpecRouter)                           *)
(***************************************************************************)
\* the text is empty or blank, shorter than 3 characters once stripped, or the user is
\* in a structured flow
ShortCircuits(text, ud) ==
    \/ \A i \in 1..Len(text) : SubSeq(text, i, i) = " "
    \/ Len(Strip(text)) < 3
    \/ ud.pending_transaction
    \/ ud.budget_flow

\* C15: on an empty or blank text, on a text of fewer than 3 characters once stripped,
\* and for a user whose pending_transaction or budget_flow flag is set,
\* process_user_text_input returns without a model call, a reply or a database write, and
\* the flags of the user stay as they were
C15_ShortCircuitsAreSilent ==
    [][ (upd.handler = "" /\ upd'.handler = "handle_text_message"
         /\ ShortCircuits(upd'.text, user_data[upd'.user_id]))
        => /\ upd'.replies = <<>>
           /\ upd'.cls_kind = "" /\ upd'.intent = ""
           /\ upd'.px = NoPx /\ upd'.aq = NoAq
           /\ upd'.failed = {}
           /\ categories' = categories
           /\ transactions' = transactions
           /\ user_data' = user_data ]_vars

\* a text long enough to be routed was dropped because the expense flow of the user is
\* open
C15_Witness ==
    /\ upd.handler = "handle_text_message"
    /\ upd.text = "Gaste 20k en almuerzo ayer"
    /\ user_data[upd.user_id].pending_transaction
    /\ ~user_data[upd.user_id].budget_flow
    /\ upd.replies = <<>> /\ upd.cls_kind = "" /\ upd.px = NoPx /\ upd.aq = NoAq

(***************************************************************************)
(* The session around the provider call (Spec)                             *)
(***************************************************************************)
\* the update was a registration, by text or by photo
IsRegistration ==
    \/ upd.handler = "handle_text_message" /\ upd.intent = "register"
    \/ upd.handler = "handle_photo_message"

\* the session events of the update in progress
UpdSessionTrace ==
    registration_session_trace(upd.px.called, Len(transactions) > upd.tx_before)

\* a session is open at position i of the trace
SessionOpenAt(trace, i) ==
    \E j \in 1..(i - 1) :
        /\ trace[j] = EV_SESSION_OPEN
        /\ \A k \in (j + 1)..(i - 1) : trace[k] # EV_SESSION_CLOSE

\* C16: in a registration by text or by photo no database session is open while
\* parse_transaction runs: the categories are read and the session released before the
\* call, and the session of the write is opened after it
C16_NoSessionAcrossProviderCall ==
    (IsRegistration /\ upd.px.called)
    => \A i \in DOMAIN UpdSessionTrace :
          UpdSessionTrace[i] = EV_PARSE => ~SessionOpenAt(UpdSessionTrace, i)

(***************************************************************************)
(* The stored instant of a transaction (SpecHelpers)                       *)
(***************************************************************************)
\* the calendar date America/Bogota shows at an instant: UTC less five hours, all year
BogotaDate(t) == (t - 5) \div 24

\* 12:00 UTC of a day
NoonUtc(day) == day * 24 + 12

\* 12:00 in America/Bogota of a day, as a UTC instant
NoonBogota(day) == day * 24 + 12 + 5

DateCall == fn.name = "_process_ai_date"

\* the AI date is a date and it is the day d
AiDateIs(d) == fn.date_str = FormatIsoDate(d)

\* C17: an AI date equal to today's date in America/Bogota is stored as the current UTC
\* instant itself, neither truncated to midnight nor moved to noon
C17_TodayKeepsNow ==
    (DateCall /\ AiDateIs(BogotaDate(fn.now_utc)))
    => fn.out = <<fn.now_utc, BogotaDate(fn.now_utc)>>

\* late evening in Bogota, already the next day in UTC: the instant is kept as it is
C17_Witness ==
    /\ DateCall /\ AiDateIs(BogotaDate(fn.now_utc))
    /\ BogotaDate(fn.now_utc) # fn.now_utc \div 24
    /\ fn.now_utc % 24 \notin {0, 12}
    /\ fn.out[1] = fn.now_utc

\* the AI date is a date other than today's date in America/Bogota
OtherDay(d) == AiDateIs(d) /\ d # BogotaDate(fn.now_utc)

\* C18 as stated: an AI date that parses and is not today's local date is stored as noon
\* of that date in America/Bogota, expressed in UTC
C18_OtherDayIsLocalNoon ==
    DateCall => \A k \in (0 - 3)..2 :
        LET d == T0 \div 24 + k IN OtherDay(d) => fn.out[1] = NoonBogota(d)

\* C18, amended: an AI date that parses and is not today's local date is stored as
\* 12:00 UTC of that date, which is 07:00 in America/Bogota
C18_OtherDayIsNoonUtc ==
    DateCall => \A k \in (0 - 3)..2 :
        LET d == T0 \div 24 + k IN OtherDay(d) => fn.out = <<NoonUtc(d), d>>

\* a date two days ahead of the local date, stored at 12:00 UTC
C18_Witness ==
    /\ DateCall
    /\ AiDateIs(BogotaDate(fn.now_utc) + 2)
    /\ fn.out[1] = NoonUtc(BogotaDate(fn.now_utc) + 2)
    /\ fn.out[1] # NoonBogota(BogotaDate(fn.now_utc) + 2)

\* C19: an AI date one day before today's local date is stored as 12:00:00 UTC of that
\* date
C19_YesterdayIsNoonUtc ==
    (DateCall /\ AiDateIs(BogotaDate(fn.now_utc) - 1))
    => fn.out[1] = NoonUtc(BogotaDate(fn.now_utc) - 1)

\* yesterday in Bogota, which is two days back on the UTC calendar
C19_Witness ==
    /\ DateCall /\ AiDateIs(BogotaDate(fn.now_utc) - 1)
    /\ BogotaDate(fn.now_utc) - 1 = fn.now_utc \div 24 - 2
    /\ fn.out[1] = (BogotaDate(fn.now_utc) - 1) * 24 + 12

(***************************************************************************)
(* parse_amount (SpecHelpers)                                              *)
(***************************************************************************)
\* the whole units a whole part stands for
WholeUnits == [i \in IntParts |->
    CASE i = "0" -> 0 [] i = "7" -> 7 [] i = "20" -> 20 [] i = "1500" -> 1500]

\* the cents the decimals round to, half to even: every whole part above is even in its
\* last cent, so ,005 rounds down and ,015 and ,025 both round to 2 cents
FracCents == [f \in Fracs |->
    CASE f = "" -> 0 [] f = "5" -> 50 [] f = "50" -> 50 [] f = "05" -> 5 [] f = "004" -> 0
      [] f = "005" -> 0 [] f = "015" -> 2 [] f = "025" -> 2 [] f = "999" -> 100]

\* the text is a positive decimal: some digit of it is not 0
PositiveText(i, f) == i # "0" \/ f \notin {""}

\* C20: a positive decimal text with a comma or a dot as decimal separator, blanks around
\* it or not, gives that value quantized to 2 decimals; a text that is not a number or
\* not a positive one makes parse_amount raise
C20_ParseAmountRoundTrips ==
    fn.name = "parse_amount" =>
       /\ \A i \in IntParts, s \in Seps, f \in Fracs, p \in Pads :
             (fn.value = AmountText(i, s, f, p) /\ PositiveText(i, f))
             => fn.out = AmountOut("return", WholeUnits[i] * 100 + FracCents[f])
       /\ fn.value \in RejectedTexts => fn.out.kind = "InvalidOperation"

\* the text of the repository's test, in the sampled digits: comma, blanks, a carry
C20_Witness ==
    /\ fn.name = "parse_amount"
    /\ fn.value = " 1500,999 "
    /\ fn.out = AmountOut("return", 150100)

(***************************************************************************)
(* Positive amounts (SpecHelpers)                                          *)
(***************************************************************************)
\* C21: every amount parse_amount returns is strictly greater than zero after the
\* quantization to 2 decimals, also for a positive text below 0.005
C21_ReturnedAmountPositive ==
    (fn.name = "parse_amount" /\ fn.out.kind = "return") => fn.out.cents > 0

(***************************************************************************)
(* The fallback of the interpretation (SpecAnalytics)                      *)
(***************************************************************************)
\* the query was executed without error and the call of the interpretation model failed
InterpretationFailed ==
    /\ aq.called /\ aq.out.submitted
    /\ aq.out.db.err = ""
    /\ InTrace(EV_INTERPRET, aq.out.trace)
    /\ ~aq.out.interp.ok

\* the result is one row of one numeric cell
SingleNumericCell(rows) == Len(rows) = 1 /\ Len(rows[1]) = 1 /\ rows[1][1].t = "int"

\* the result is one row of one cell that is not a number
SingleOtherCell(rows) == Len(rows) = 1 /\ Len(rows[1]) = 1 /\ rows[1][1].t # "int"

ReportsRowCount(value, rows) ==
    Contains(value, "Encontré " \o IntToStr(Len(rows)) \o " resultado(s)")

Rows(txs) == {txs[i] : i \in DOMAIN txs}

\* the step is delete_transaction_callback handling a press of user u
DeletePressBy(u) ==
    upd.handler = "" /\ upd'.handler = "delete_transaction_callback" /\ upd'.user_id = u

\* C23: delete_transaction_callback removes a row only if the row exists, belongs to the
\* user who pressed the button and is the one the button names; when the button names no
\* row of that user, the table is left as it was and nothing is committed.
C23_DeleteOnlyOwn ==
    [][ \A u \in UserIds :
          DeletePressBy(u) =>
             /\ \A t \in Rows(transactions) \ Rows(transactions') :
                   t.user_id = u /\ upd'.text = "dt:" \o IntToStr(t.id)
             /\ (~\E t \in Rows(transactions) :
                     t.user_id = u /\ upd'.text = "dt:" \o IntToStr(t.id))
                => (transactions' = transactions /\ ~upd'.committed) ]_vars

\* the owner of a transaction has pressed its button and the row is gone
C23_Witness ==
    /\ upd.handler = "delete_transaction_callback"
    /\ upd.committed
    /\ Len(transactions) < upd.tx_before

\* C24: when the owner of a transaction presses the button that show_recent_transactions
\* attaches to it, delete_transaction_callback handles the press, deletes exactly that
\* transaction and commits.
C24_RecentButtonDeletes ==
    [][ \A u \in UserIds : \A r \in show_recent_transactions(transactions, u) :
        \A b \in r.buttons :
          (upd.handler = "" /\ upd'.handler # "" /\ upd'.user_id = u
              /\ upd'.text = b.callback_data)
          => /\ upd'.handler = "delete_transaction_callback"
             /\ transactions' = DeleteRow(transactions, b.transaction_id)
             /\ upd'.committed ]_vars

\* C25: after a main menu button (Dashboard, Reporte, Metas, Ajustes) the user's
\* conversation data is empty and no conversation of the user is open, so that the
\* next free text goes to no step handler of an abandoned flow.
C25_MenuButtonCancelsFlow ==
    upd.handler \in {MainMenuButtons[b] : b \in DOMAIN MainMenuButtons}
    => /\ user_data[upd.user_id] = EmptyUserData
       /\ conversations[upd.user_id] = NoConversations
       /\ text_handler(conv[upd.user_id], conversations[upd.user_id]) = "handle_text_message"

\* the step is the handler named handler of the expense conversation, for user u
ExpenseStep(u, handler) ==
    upd.handler = "" /\ upd'.handler = handler /\ upd'.user_id = u

\* the step adds one Transaction row of user u at the end of the table and nothing else
CreatesOne(u) ==
    /\ Len(transactions') = Len(transactions) + 1
    /\ SubSeq(transactions', 1, Len(transactions)) = transactions
    /\ transactions'[Len(transactions')].user_id = u

\* C26: a step of the manual expense flow creates at most one Transaction, and creates
\* one only as the decision "no" or as a received description, which end the
\* conversation and remove pending_transaction; the amount entry, the category
\* selection and the decision "yes" create none.
C26_ExpenseCreatesAtTerminalStep ==
    [][ \A u \in UserIds :
        /\ \A h \in {"start_expense", "expense_amount_received", "expense_category_selected",
                     "cancel_transaction"} :
              ExpenseStep(u, h) => transactions' = transactions
        /\ (ExpenseStep(u, "expense_description_decision") /\ upd'.text = "ed:yes")
           => transactions' = transactions
        /\ \A h \in {"expense_description_decision", "expense_description_received"} :
              ExpenseStep(u, h) =>
                 \/ transactions' = transactions
                 \/ /\ CreatesOne(u)
                    /\ h = "expense_description_decision" => upd'.text = "ed:no"
                    /\ upd'.ret = END
                    /\ conversations'[u].expense = END
                    /\ ~user_data'[u].pending_transaction ]_vars

\* the decision "no" has saved the expense
C26_Witness ==
    /\ upd.handler = "expense_description_decision"
    /\ upd.text = "ed:no"
    /\ Len(transactions) = upd.tx_before + 1
    /\ conversations[upd.user_id].expense = END
    /\ ~user_data[upd.user_id].pending_transaction

(***************************************************************************)
(* Properties of the amount steps (SpecAmounts)                            *)
(***************************************************************************)
\* the handlers that read an amount, and the state each one is registered in
AmountSteps ==
    [expense_amount_received |-> EXPENSE_AMOUNT,
     income_amount_received |-> INCOME_AMOUNT,
     budget_amount_received |-> BUDGET_AMOUNT_INPUT,
     goal_target_received |-> GOAL_TARGET_INPUT,
     goal_contribution_amount_received |-> GOAL_CONTRIBUTION_AMOUNT]

\* amounts that are not numbers, zero, negative
InvalidAmounts == { "abc", "0", "-50" }

\* the step is the amount handler h reading an invalid amount typed by user u
InvalidAmountStep(u, h) ==
    upd.handler = "" /\ upd'.handler = h /\ upd'.user_id = u /\ upd'.text \in InvalidAmounts

\* the step stays in the state of h and changes neither a table nor the user's data
StaysInStep(u, h) ==
    /\ upd'.ret = AmountSteps[h]
    /\ conversations'[u] = conversations[u]
    /\ UNCHANGED <<users, categories, transactions, tx_seq, budgets, goals>>
    /\ ~upd'.committed
    /\ user_data'[u] = user_data[u]

\* the data the amount step of h reads from user_data before it reads the amount
FlowDataStored(u, h) ==
    CASE h = "budget_amount_received" -> user_data[u].budget_flow
      [] h = "goal_target_received" -> user_data[u].goal_creation.present
      [] h = "goal_contribution_amount_received" -> user_data[u].goal_contribution.present
      [] OTHER -> TRUE

SelectedDefaults(ud) == setdefault_onboarding(ud).onboarding.selected_defaults

\* the step is the press of user u on the toggle button of category n
TogglePress(u, n) ==
    /\ upd.handler = ""
    /\ upd'.handler = "onboarding_category_choice"
    /\ upd'.user_id = u
    /\ upd'.text = onboarding("toggle", <<n>>).value

\* C28: a toggle of a category that is not locked flips the membership of that category
\* in selected_defaults and of no other, a second toggle of the same category gives the
\* selection back, and the conversation stays in ONBOARDING_CATEGORY_CHOICES
C28_ToggleFlipsOne ==
    [][\A u \in UserIds : \A n \in ToggleNames \ LOCKED_DEFAULTS :
          TogglePress(u, n) =>
             LET before == SelectedDefaults(user_data[u])
                 after  == user_data'[u].onboarding.selected_defaults
                 again  == onboarding_category_choice(upd'.text, user_data'[u])
             IN  /\ (n \in after) <=> (n \notin before)
                 /\ after \ {n} = before \ {n}
                 /\ again.user_data.onboarding.selected_defaults = before
                 /\ upd'.ret = ONBOARDING_CATEGORY_CHOICES
                 /\ conv'[u] = ONBOARDING_CATEGORY_CHOICES
                 /\ again.ret = ONBOARDING_CATEGORY_CHOICES]_vars

\* user 7 switched "Comida" off and "Mascotas" on, and has just toggled "Salario"
C28_Witness ==
    /\ upd.handler = "onboarding_category_choice"
    /\ upd.user_id = 7
    /\ upd.text = "o:toggle:Salario"
    /\ user_data[7].onboarding.selected_defaults =
          (ONBOARDING_CATEGORY_NAMES \ {"Comida", "Salario"}) \cup {"Mascotas"}

\* the Category rows of user u named name
Named(u, name) == {c \in categories : c.user_id = u /\ c.name = name}

\* C29: the locked categories "General" and "General Ingreso" never leave the selection,
\* and when onboarding_finish has run both exist for its user
C29_LockedCategoriesKept ==
    /\ \A u \in UserIds : user_data[u].onboarding.present =>
          LOCKED_DEFAULTS \subseteq user_data[u].onboarding.selected_defaults
    /\ upd.handler = "onboarding_finish" =>
          /\ \E c \in Named(upd.user_id, "General") : c.type = EXPENSE /\ c.is_default
          /\ \E c \in Named(upd.user_id, "General Ingreso") : c.type = INCOME /\ c.is_default

\* onboarding_finish ran for user 7 after they switched "Comida" and "Salario" off: neither
\* was created, the locked categories were
C29_Witness ==
    /\ upd.handler = "onboarding_finish"
    /\ upd.user_id = 7
    /\ Named(7, "Comida") = {}
    /\ Named(7, "Salario") = {}
    /\ Named(7, "General") # {}
    /\ Named(7, "General Ingreso") # {}

(***************************************************************************)
(* Properties of CallbackManager (SpecCallbacks)                           *)
(***************************************************************************)
\* the text before the first separator, and the texts after it
PrefixOf(callback_data) == Split(callback_data, SEPARATOR)[1]
PartsOf(callback_data) == Tail(Split(callback_data, SEPARATOR))

\* the text writes an integer: digits after an optional sign
WritesInteger(s) ==
    \/ IsDigits(s)
    \/ Len(s) > 1 /\ Chr(s, 1) \in {"+", "-"} /\ IsDigits(SubSeq(s, 2, Len(s)))

\* the callback_data carries the prefix of another type than t, an id that is no integer,
\* or a number of parts other than one
OtherPrefix(t, callback_data) ==
    \E k \in DOMAIN CallbackType : k # t /\ CallbackType[k] # CallbackType[t]
                                      /\ PrefixOf(callback_data) = CallbackType[k]
NonIntegerId(callback_data) ==
    Len(PartsOf(callback_data)) = 1 /\ ~WritesInteger(PartsOf(callback_data)[1])
WrongParts(callback_data) == Len(PartsOf(callback_data)) # 1

\* C30: for the six types that carry an id, the parser gives back the id the builder was
\* given, and raises ValueError on data with the prefix of another type, with an id that
\* is no integer or with a number of parts other than one
C30_CallbackRoundTrip ==
    /\ (fn.name = "callback_round_trip" /\ fn.built.kind = "return")
       => fn.parsed = Returned(fn.id)
    /\ (fn.name = "parse_callback"
        /\ \/ OtherPrefix(fn.type, fn.callback_data)
           \/ NonIntegerId(fn.callback_data)
           \/ WrongParts(fn.callback_data))
       => fn.out = ValueError

\* the data of a budget category button was given to the parser of the delete buttons
C30_Witness ==
    /\ fn.name = "parse_callback"
    /\ fn.type = "DELETE_CATEGORY"
    /\ fn.callback_data = budget_category(123).value
    /\ fn.out = ValueError

\* the text a builder joins from its prefix and its parts
JoinedCall == Join(<<fn.prefix>> \o fn.parts, SEPARATOR)

\* C31: what a builder returns is at most 64 bytes long in UTF-8, and a builder whose
\* joined parts are longer than 64 bytes raises ValueError
C31_BuilderWithinLimit ==
    fn.name = "build_callback" =>
       /\ fn.out.kind = "return" => Utf8Len(fn.out.value) <= 64
       /\ Utf8Len(JoinedCall) > 64 => fn.out = ValueError
       /\ Utf8Len(JoinedCall) <= 64 => fn.out = Returned(JoinedCall)

\* a toggle button for a name of 32 two-byte letters: 41 characters, 73 bytes, refused
C31_Witness ==
    /\ fn.name = "build_callback"
    /\ fn.builder = "onboarding"
    /\ fn.parts = <<"toggle", Repeat("ñ", 32)>>
    /\ Len(JoinedCall) <= 64
    /\ fn.out = ValueError

(***************************************************************************)
(* Properties of the suppression flags (SpecFlags)                         *)
(***************************************************************************)
TransactionFlowHandlers ==
    {"expense_amount_received", "expense_category_selected", "expense_description_decision",
     "expense_description_received", "income_amount_received", "income_category_selected",
     "income_description_received", "cancel_transaction"}

BudgetFlowHandlers ==
    {"start_budget", "budget_category_selected", "budget_amount_received", "cancel_budget_flow"}

\* C32: when a handler of the expense or of the income conversation has returned END,
\* pending_transaction is not set for its user, and when a handler of the budget
\* conversation has returned END, budget_flow is not set
C32_FlagClearedAtEnd ==
    /\ (upd.handler \in TransactionFlowHandlers /\ upd.ret = END)
       => ~user_data[upd.user_id].pending_transaction
    /\ (upd.handler \in BudgetFlowHandlers /\ upd.ret = END)
       => ~user_data[upd.user_id].budget_flow

(***************************************************************************)
(* Properties of the router next to the open conversations (SpecRouter)    *)
(***************************************************************************)
\* some conversation of the user waits for an input
InFlow(u) == \E f \in DOMAIN conversations[u] : conversations[u][f] # END

\* C33: when a text reaches handle_text_message while a conversation of the user is in a
\* non-terminal state, the router makes no model call and creates no transaction.
C33_InputSuppressedInFlow ==
    (/\ upd.handler = "handle_text_message"
     /\ InFlow(upd.user_id)
     /\ text_handler(conv[upd.user_id], conversations[upd.user_id]) = "handle_text_message")
    => (/\ ~upd.px.called /\ ~upd.aq.called
        /\ Len(transactions) = upd.tx_before)

(***************************************************************************)
(* The order of the checks of the validation (SpecExtraction)              *)
(***************************************************************************)
\* the checks of _validate_and_normalize_response a parsed response fails, numbered in
\* the order required fields (1), amount (2), category existence (3), type value (4),
\* type/category match (5), date (6); the match can only be looked at for a category
\* that was found
FailingChecks(parsed, found_in, now_utc) ==
    LET named == {c \in found_in : parsed.category_id.int /\ c.id = parsed.category_id.n}
        t == Lower(parsed.type)
        d == ParseIsoDate(Strip(parsed.date))
    IN  (IF AllFields \ parsed.has # {} THEN {1} ELSE {})
        \cup (IF ~parsed.amount.num \/ parsed.amount.milli <= 0 THEN {2} ELSE {})
        \cup (IF named = {} THEN {3} ELSE {})
        \cup (IF t \notin {"expense", "income"} THEN {4} ELSE {})
        \cup (IF \E c \in named : c.type # (IF t = "expense" THEN EXPENSE ELSE INCOME)
              THEN {5} ELSE {})
        \cup (IF d = -1 \/ d > ServerToday(now_utc) \/ d < ServerToday(now_utc) - MAX_PAST_DAYS
              THEN {6} ELSE {})

\* the check whose cause the message of a failed extraction reports, 0 for none of them
ValidationCause(value) ==
    LET Has(prefix) == StartsWith(value, "Failed to parse transaction with AI: " \o prefix)
    IN  IF Has("AI response missing required field: ") THEN 1
        ELSE IF Has("Invalid amount in AI response: ") THEN 2
        ELSE IF Has("Category ID ") \/ Has("invalid literal for int()") THEN 3
        ELSE IF Has("Invalid type: ") THEN 4
        ELSE IF Has("Category ") THEN 5
        ELSE IF Has("Invalid date format: ") \/ Has("day is out of range") \/ Has("Date ")
        THEN 6
        ELSE 0

\* C34: the validation checks required fields, amount, category existence, type value,
\* type/category match and date in that order: a response that fails several checks is
\* rejected with the cause of the first check it fails, and one that fails none is
\* returned.
C34_EarliestCauseReported ==
    (px.called /\ px.out.resp.ok /\ px.out.resp.json) =>
        LET failing == FailingChecks(px.out.resp.parsed, px.categories, px.now)
        IN  IF failing = {} THEN px.out.kind = "return"
            ELSE /\ px.out.kind = "RuntimeError"
                 /\ ValidationCause(px.out.value) = SetMin(failing)

\* a response with an amount of zero, a category the user does not have and a date that
\* is no date was rejected for its amount
C34_Witness ==
    /\ px.called /\ px.out.resp.ok /\ px.out.resp.json
    /\ {2, 3, 6} \subseteq FailingChecks(px.out.resp.parsed, px.categories, px.now)
    /\ px.out.kind = "RuntimeError"
    /\ ValidationCause(px.out.value) = 2

(***************************************************************************)
(* The category of a created transaction (SpecLedger)                      *)
(***************************************************************************)
\* the type of transaction the flow of the last update records
FlowType ==
    IF upd.handler \in {"expense_description_decision", "expense_description_received"}
    THEN EXPENSE
    ELSE IF upd.handler \in {"income_category_selected", "income_description_received"}
    THEN INCOME
    ELSE upd.px.out.result.type

\* C35: a transaction a flow has created references a category that exists, belongs to
\* the user of the transaction and has the type of the flow.
C35_TransactionCategoryValid ==
    (upd.handler # "" /\ Len(transactions) = upd.tx_before + 1) =>
        LET t == transactions[Len(transactions)]
        IN  \E c \in categories :
               c.id = t.category_id /\ c.user_id = t.user_id /\ c.type = FlowType

(***************************************************************************)
(* The stored instant of a registration (Spec)                             *)
(***************************************************************************)
\* C36: a transaction persisted by the natural-language pipeline has a stored timestamp
\* that is not later than the instant at which it is persisted.
C36_StoredInstantNotInFuture ==
    (/\ upd.handler \in {"handle_text_message", "handle_photo_message"}
     /\ Len(transactions) = upd.tx_before + 1)
    => transactions[Len(transactions)].transaction_date <= upd.px.now

(***************************************************************************)
(* The local date of the resolved instant (SpecHelpers)                    *)
(***************************************************************************)
\* C37: for a date string that parses, the instant _process_ai_date returns falls, in
\* America/Bogota, on the date of the string, and the display date returned with it is
\* that date, whether the instant is the current one or noon UTC.
C37_ResolvedInstantKeepsLocalDate ==
    (fn.name = "_process_ai_date" /\ ParseIsoDate(fn.date_str) # -1) =>
        /\ LocalDate(fn.out[1]) = ParseIsoDate(fn.date_str)
        /\ fn.out[2] = ParseIsoDate(fn.date_str)

\* the date of today in Bogota was resolved while the date in UTC was already the next
\* day: the current instant was returned
C37_Witness ==
    /\ fn.name = "_process_ai_date"
    /\ ParseIsoDate(fn.date_str) = LocalDate(fn.now_utc)
    /\ UtcDate(fn.now_utc) = LocalDate(fn.now_utc) + 1
    /\ fn.out[1] = fn.now_utc
    /\ fn.out[2] = LocalDate(fn.now_utc)

(***************************************************************************)
(* The buttons of the keyboards sent (SpecLedger)                          *)
(***************************************************************************)
\* the callback_data of the buttons of the keyboard the last handler sent
ButtonsSent ==
    IF upd.handler = "show_recent_transactions"
    THEN UNION { {b.callback_data : b \in r.buttons}
                 : r \in show_recent_transactions(transactions, upd.user_id) }
    ELSE IF upd.handler = "expense_amount_received" /\ upd.ret = EXPENSE_CATEGORY
    THEN _send_category_prompt(categories, upd.user_id, EXPENSE).buttons
    ELSE IF upd.handler = "expense_category_selected" /\ upd.ret = EXPENSE_DESCRIPTION_DECISION
    THEN {expense_desc("yes").value, expense_desc("no").value}
    ELSE {}

\* C38: every button of a keyboard a handler sends carries callback data that a handler
\* registered in build_application matches, globally or in the state of the conversation
\* the keyboard is shown in.
C38_ButtonsHaveHandlers ==
    \A data \in ButtonsSent : callback_handler(data, conversations[upd.user_id]) # ""

(***************************************************************************)
(* The reply of a registration and its row (Spec)                          *)
(***************************************************************************)
\* the replies that ask the user to try again
RetryReplies == {ROUTER_ERROR, PHOTO_ERROR, NOT_UNDERSTOOD, PHOTO_NOT_READ, CATEGORY_MISSING}

\* C39: when the last reply of a registration by text or by photo asks the user to try
\* again, no transaction was persisted for that message.
C39_RetryReplyMeansNothingPersisted ==
    (/\ upd.handler \in {"handle_text_message", "handle_photo_message"}
     /\ upd.replies # <<>>
     /\ upd.replies[Len(upd.replies)] \in RetryReplies)
    => Len(transactions) = upd.tx_before

=============================================================================
